---- MODULE Spec2Model ----
(***************************************************************************)
(* The ratchet tree of molasses (src/src/ratchet_tree.rs) and the direct   *)
(* path messages it produces (src/src/handshake.rs).                       *)
(*                                                                         *)
(* Node indices are the 0-based indices of the Rust code; a tree is a      *)
(* TLA+ sequence, so node i of tree t is t[i + 1].  An Option<T> is a      *)
(* sequence of length 0 (None) or 1 (Some).  Byte strings (secrets, keys)  *)
(* are symbolic: a sequence of labels recording how the value was derived. *)
(***************************************************************************)
EXTENDS Integers, Sequences, FiniteSets

VARIABLES
    nodes,  \* RatchetTree.nodes of the local participant
    peer,   \* RatchetTree.nodes of a second participant (a clone of the tree)
    msg,    \* the update in flight: the sender's leaf and its DirectPathMessage
    group_state, \* the GroupState of the local participant, if it has one
    frame,  \* the locals of a running propogate_new_path_secret, if one runs
    call,   \* the last method called, with its arguments
    ret     \* what the last method returned

vars == <<nodes, peer, msg, group_state, frame, call, ret>>

(***************************************************************************)
(* Bounds of the model.                                                    *)
(***************************************************************************)
MaxLeaves == 4     \* add_leaf_node is not called on a tree of MaxLeaves leaves

None    == <<>>
Some(x) == <<x>>

(***************************************************************************)
(* tree_math: index arithmetic of a left-balanced binary tree.             *)
(***************************************************************************)
RECURSIVE pow2(_)
pow2(n) == IF n <= 0 THEN 1 ELSE 2 * pow2(n - 1)

RECURSIVE log2(_)
log2(x) == IF x <= 1 THEN 0 ELSE 1 + log2(x \div 2)

num_nodes_in_tree(num_leaves) == 2 * num_leaves - 1

num_leaves_in_tree(num_nodes) == (num_nodes + 1) \div 2

\* The largest power of two <= the number of nodes, minus one.
root_idx(num_leaves) == pow2(log2(num_nodes_in_tree(num_leaves))) - 1

\* The number of trailing one bits of i.
RECURSIVE node_level(_)
node_level(i) == IF i % 2 = 0 THEN 0 ELSE 1 + node_level(i \div 2)

node_left_child(i) ==
    IF node_level(i) = 0 THEN i ELSE i - pow2(node_level(i) - 1)

RECURSIVE descend_into_tree(_, _)
descend_into_tree(r, num_nodes) ==
    IF r < num_nodes \/ node_level(r) = 0 THEN r
    ELSE descend_into_tree(node_left_child(r), num_nodes)

node_right_child(i, num_leaves) ==
    IF node_level(i) = 0 THEN i
    ELSE descend_into_tree(i + pow2(node_level(i) - 1),
                           num_nodes_in_tree(num_leaves))

\* One step up in the complete tree: set bit k, clear bit k+1 (k the level).
parent_step(x) ==
    LET k == node_level(x)
        b == (x \div pow2(k + 1)) % 2
    IN  x + pow2(k) - b * pow2(k + 1)

RECURSIVE ascend_into_tree(_, _)
ascend_into_tree(p, num_nodes) ==
    IF p < num_nodes THEN p ELSE ascend_into_tree(parent_step(p), num_nodes)

node_parent(i, num_leaves) ==
    IF i = root_idx(num_leaves) THEN i
    ELSE ascend_into_tree(parent_step(i), num_nodes_in_tree(num_leaves))

\* Mutant of node_sibling: the left child of the parent, whichever side i is on.
node_sibling_left(i, num_leaves) ==
    LET p == node_parent(i, num_leaves)
    IN  IF i = p THEN p ELSE node_left_child(p)

node_sibling(i, num_leaves) ==
    LET p == node_parent(i, num_leaves)
    IN  IF i < p THEN node_right_child(p, num_leaves)
        ELSE IF i > p THEN node_left_child(p)
        ELSE p

\* The strict ancestors of i, from its parent up to and excluding the root.
RECURSIVE path_from(_, _)
path_from(p, num_leaves) ==
    IF p = root_idx(num_leaves) THEN <<>>
    ELSE <<p>> \o path_from(node_parent(p, num_leaves), num_leaves)

node_direct_path(i, num_leaves) ==
    path_from(node_parent(i, num_leaves), num_leaves)

\* [i, parents..., root]
node_extended_direct_path(i, num_leaves) ==
    IF i = root_idx(num_leaves) THEN <<i>>
    ELSE <<i>> \o node_direct_path(i, num_leaves) \o <<root_idx(num_leaves)>>

SeqToSet(s) == {s[k] : k \in 1..Len(s)}

\* a lies on the extended direct path of d.
is_ancestor(a, d, num_leaves) ==
    a \in SeqToSet(node_extended_direct_path(d, num_leaves))

\* The lowest node whose subtree holds both i and j: the first node of i's
\* extended direct path that is an ancestor of j.
common_ancestor(i, j, num_leaves) ==
    LET p == node_extended_direct_path(i, num_leaves)
        k == CHOOSE k \in 1..Len(p) :
                 /\ is_ancestor(p[k], j, num_leaves)
                 /\ \A m \in 1..(k - 1) : ~is_ancestor(p[m], j, num_leaves)
    IN  p[k]

\* The leaves 0, 2, ..., 2(L-1), in ascending order.
tree_leaves(num_leaves) == [k \in 1..num_leaves |-> 2 * (k - 1)]


(***************************************************************************)
(* The cipher suite, symbolically.  A byte string is the record of its     *)
(* derivation: the seed it started from and the labels applied since.      *)
(***************************************************************************)
Bytes(seed) == [seed |-> seed, labels |-> <<>>]

\* hkdf::prk_from_bytes: HKDF-Extract of the path secret.
prk_from_bytes(bytes) == [bytes EXCEPT !.labels = Append(@, "prk")]

\* hkdf::hkdf_expand_label(prk, label, "", Hash.Length)
hkdf_expand_label(prk, label) == [prk EXCEPT !.labels = Append(@, label)]

\* cs.derive_key_pair(seed) -> (public key, private key)
derive_key_pair(secret) ==
    [public_key  |-> [kind |-> "pub",  of |-> secret],
     private_key |-> [kind |-> "priv", of |-> secret]]

\* ecies::ecies_encrypt: only the holder of the private key of `public_key`
\* can open the ciphertext.
ecies_encrypt(public_key, plaintext) == [to |-> public_key, pt |-> plaintext]

ecies_decrypt(private_key, ciphertext) ==
    IF private_key.of = ciphertext.to.of
    THEN [tag |-> "Ok", pt |-> ciphertext.pt]
    ELSE [tag |-> "EncryptionError"]

(***************************************************************************)
(* RatchetTreeNode                                                         *)
(***************************************************************************)
Blank == [filled |-> FALSE, public_key |-> None, private_key |-> None,
          secret |-> None]

Filled(public_key, private_key, secret) ==
    [filled |-> TRUE, public_key |-> Some(public_key),
     private_key |-> private_key, secret |-> secret]

is_filled(node) == node.filled

update_public_key(node, new_public_key) ==
    IF ~node.filled THEN Filled(new_public_key, None, None)
    ELSE [node EXCEPT !.public_key = Some(new_public_key)]

get_public_key(node) == IF ~node.filled THEN None ELSE node.public_key

\* Panics on a Blank node: the node is left as it was.
update_private_key(node, new_private_key) ==
    IF ~node.filled THEN node
    ELSE [node EXCEPT !.private_key = Some(new_private_key)]

\* Mutant of update_secret: a Blank node is filled to take the secret.
update_secret_filling(node, new_secret) ==
    IF ~node.filled
    THEN Filled(derive_key_pair(new_secret).public_key, None, Some(new_secret))
    ELSE [node EXCEPT !.secret = Some(new_secret)]

\* Panics on a Blank node: the node is left as it was.
update_secret(node, new_secret) ==
    IF ~node.filled THEN node
    ELSE [node EXCEPT !.secret = Some(new_secret)]

\* vec![0u8; secret_len]
Zeros(secret_len) == [seed |-> 0, labels |-> <<>>, len |-> secret_len]

\* Mutant of get_mut_node_secret: a secret of another length than secret_len
\* is replaced by a zeroed one.
get_mut_node_secret_resizing(node, secret_len) ==
    IF ~node.filled THEN [node |-> node, value |-> None]
    ELSE IF node.secret = Some(Zeros(secret_len))
    THEN [node |-> node, value |-> node.secret]
    ELSE [node  |-> [node EXCEPT !.secret = Some(Zeros(secret_len))],
          value |-> Some(Zeros(secret_len))]

\* The node as the call leaves it, and the Option<&mut [u8]> it returns (by
\* the value of the buffer it points to).
get_mut_node_secret(node, secret_len) ==
    IF ~node.filled THEN [node |-> node, value |-> None]
    ELSE IF node.secret /= None THEN [node |-> node, value |-> node.secret]
    ELSE [node  |-> [node EXCEPT !.secret = Some(Zeros(secret_len))],
          value |-> Some(Zeros(secret_len))]

get_secret(node) == IF ~node.filled THEN None ELSE node.secret

get_private_key(node) == IF ~node.filled THEN None ELSE node.private_key

(***************************************************************************)
(* RatchetTree: pure versions of the methods, on the value of `nodes`.     *)
(***************************************************************************)
new == <<>>

size(tree) == Len(tree)

get(tree, idx) == IF idx >= 0 /\ idx < Len(tree) THEN Some(tree[idx + 1]) ELSE None

get_root_node(tree) ==
    IF size(tree) = 0 THEN None
    ELSE get(tree, root_idx(size(tree)))

\* Mutant of add_leaf_node: the Blank internal node is not pushed.
add_leaf_node_no_blank(tree, node) == Append(tree, node)

add_leaf_node(tree, node) ==
    IF Len(tree) = 0 THEN Append(tree, node)
    ELSE Append(Append(tree, Blank), node)

\* for i in direct_path { self.nodes[i] = Blank }
RECURSIVE blank_each(_, _)
blank_each(tree, path) ==
    IF path = <<>> THEN tree
    ELSE blank_each([tree EXCEPT ![Head(path) + 1] = Blank], Tail(path))

\* Mutant of propogate_blank: the start node is blanked with its direct path.
propogate_blank_with_start(tree, start_idx) ==
    LET num_leaves == num_leaves_in_tree(size(tree))
        blanked    == blank_each(tree, <<start_idx>> \o node_direct_path(start_idx, num_leaves))
    IN  [blanked EXCEPT ![root_idx(num_leaves) + 1] = Blank]

\* Mutant of propogate_blank: only the lowest Filled node of the path is blanked.
propogate_blank_lowest(tree, start_idx) ==
    LET num_leaves == num_leaves_in_tree(size(tree))
        path       == node_direct_path(start_idx, num_leaves) \o <<root_idx(num_leaves)>>
        filled     == {k \in 1..Len(path) : is_filled(tree[path[k] + 1])}
    IN  IF filled = {} THEN tree
        ELSE [tree EXCEPT ![path[CHOOSE k \in filled : \A m \in filled : k <= m] + 1] = Blank]

propogate_blank(tree, start_idx) ==
    LET num_leaves  == num_leaves_in_tree(size(tree))
        direct_path == node_direct_path(start_idx, num_leaves)
        blanked     == blank_each(tree, direct_path)
    IN  [blanked EXCEPT ![root_idx(num_leaves) + 1] = Blank]

\* The loop over tree_leaves(num_leaves).rev(): k counts down over the leaves;
\* every Filled leaf met overwrites last_nonblank_leaf.
RECURSIVE scan_leaves_rev(_, _, _)
scan_leaves_rev(tree, k, last_nonblank_leaf) ==
    IF k = 0 THEN last_nonblank_leaf
    ELSE LET leaf_idx == tree_leaves(num_leaves_in_tree(size(tree)))[k]
         IN  scan_leaves_rev(tree, k - 1,
                 IF is_filled(tree[leaf_idx + 1]) THEN Some(leaf_idx)
                 ELSE last_nonblank_leaf)

\* Mutant of truncate_to_last_nonblank: i elements are retained, not i + 1.
truncate_retain_i(tree) ==
    LET last_nonblank_leaf ==
            scan_leaves_rev(tree, num_leaves_in_tree(size(tree)), None)
    IN  IF last_nonblank_leaf = None THEN <<>>
        ELSE SubSeq(tree, 1, last_nonblank_leaf[1])

truncate_to_last_nonblank(tree) ==
    LET num_leaves == num_leaves_in_tree(size(tree))
        last_nonblank_leaf == scan_leaves_rev(tree, num_leaves, None)
    IN  IF last_nonblank_leaf = None THEN <<>>
        ELSE SubSeq(tree, 1, last_nonblank_leaf[1] + 1)

\* helper(tree, i, acc) of resolution: returns acc as the call leaves it.
RECURSIVE helper(_, _, _)
helper(tree, i, acc) ==
    IF ~is_filled(tree[i + 1])
    THEN IF node_level(i) = 0 THEN acc
         ELSE LET num_leaves == num_leaves_in_tree(Len(tree))
              IN  helper(tree, node_right_child(i, num_leaves),
                         helper(tree, node_left_child(i), acc))
    ELSE Append(acc, i)

\* Mutant of resolution: the right child is resolved before the left one.
RECURSIVE helper_right_first(_, _, _)
helper_right_first(tree, i, acc) ==
    IF ~is_filled(tree[i + 1])
    THEN IF node_level(i) = 0 THEN acc
         ELSE LET num_leaves == num_leaves_in_tree(Len(tree))
              IN  helper_right_first(tree, node_left_child(i),
                      helper_right_first(tree, node_right_child(i, num_leaves), acc))
    ELSE Append(acc, i)

resolution_right_first(tree, idx) == helper_right_first(tree, idx, <<>>)

\* Mutant of resolution: the descent does not stop at a Filled internal node.
RECURSIVE helper_no_stop(_, _, _)
helper_no_stop(tree, i, acc) ==
    IF node_level(i) = 0
    THEN IF is_filled(tree[i + 1]) THEN Append(acc, i) ELSE acc
    ELSE LET num_leaves == num_leaves_in_tree(Len(tree))
             below == helper_no_stop(tree, node_left_child(i), acc)
             here  == IF is_filled(tree[i + 1]) THEN Append(below, i) ELSE below
         IN  helper_no_stop(tree, node_right_child(i, num_leaves), here)

resolution_no_stop(tree, idx) == helper_no_stop(tree, idx, <<>>)

resolution(tree, idx) == helper(tree, idx, <<>>)


TreeError(text) == [tag |-> "TreeError", msg |-> text]

\* Mutant of encrypt_for_resolution: the ciphertexts are pushed in the reverse
\* order of the resolution.
encrypt_for_resolution_reversed(tree, res, parent_secret) ==
    [j \in 1..Len(res) |->
        ecies_encrypt(get_public_key(tree[res[Len(res) + 1 - j] + 1])[1], parent_secret)]

\* for res_node in self.resolution(copath_node_idx): one ciphertext each.
encrypt_for_resolution(tree, res, parent_secret) ==
    [j \in 1..Len(res) |->
        ecies_encrypt(get_public_key(tree[res[j] + 1])[1], parent_secret)]

\* The loop `for path_node_idx in direct_path` of encrypt_direct_path_secrets,
\* from the rest of the path still to visit and the messages pushed so far.
RECURSIVE encrypt_path(_, _, _)
encrypt_path(tree, path, node_messages) ==
    IF path = <<>> THEN [tag |-> "Ok", node_messages |-> node_messages]
    ELSE
      LET num_leaves           == num_leaves_in_tree(size(tree))
          path_node_idx        == Head(path)
          parent_path_node_idx == node_parent(path_node_idx, num_leaves)
          parent_path_node     == tree[parent_path_node_idx + 1]
          parent_public_key    == get_public_key(parent_path_node)
          parent_secret        == get_secret(parent_path_node)
          copath_node_idx      == node_sibling(path_node_idx, num_leaves)
      IN  IF parent_public_key = None
          THEN TreeError("Non-blank node has a blank parent")
          ELSE IF parent_secret = None
          THEN TreeError("Node doesn't know its parent's secret")
          ELSE encrypt_path(tree, Tail(path),
                   Append(node_messages,
                       [public_key   |-> parent_public_key[1],
                        node_secrets |-> encrypt_for_resolution(tree,
                                             resolution(tree, copath_node_idx),
                                             parent_secret[1])]))

\* Mutant of encrypt_direct_path_secrets: the node message of the sender's own
\* leaf is not pushed.
encrypt_direct_path_secrets_no_leading(tree, my_leaf_idx) ==
    IF my_leaf_idx % 2 /= 0
    THEN TreeError("Cannot encrypt direct paths of non-leaf nodes")
    ELSE IF get(tree, my_leaf_idx) = None
    THEN TreeError("My tree index isn't in the tree")
    ELSE IF get_public_key(get(tree, my_leaf_idx)[1]) = None
    THEN TreeError("My tree index is blank")
    ELSE encrypt_path(tree,
             node_direct_path(my_leaf_idx, num_leaves_in_tree(size(tree))), <<>>)

encrypt_direct_path_secrets(tree, my_leaf_idx) ==
    IF my_leaf_idx % 2 /= 0
    THEN TreeError("Cannot encrypt direct paths of non-leaf nodes")
    ELSE IF get(tree, my_leaf_idx) = None
    THEN TreeError("My tree index isn't in the tree")
    ELSE IF get_public_key(get(tree, my_leaf_idx)[1]) = None
    THEN TreeError("My tree index is blank")
    ELSE
      LET num_leaves    == num_leaves_in_tree(size(tree))
          direct_path   == node_direct_path(my_leaf_idx, num_leaves)
          my_public_key == get_public_key(get(tree, my_leaf_idx)[1])[1]
      IN  encrypt_path(tree, direct_path,
              << [public_key |-> my_public_key, node_secrets |-> <<>>] >>)

\* Mutant of comb_resolution: the ciphertext is taken by indexing
\* (node_secrets[pos_in_res]), which panics when it is missing.
RECURSIVE comb_resolution_indexing(_, _, _, _, _, _)
comb_resolution_indexing(tree, res, pos, node_msg, my_tree_idx, common_ancestor_idx) ==
    IF pos > Len(res)
    THEN TreeError("Cannot find node in resolution with known private key")
    ELSE
      LET num_leaves == num_leaves_in_tree(size(tree))
          res_node   == tree[res[pos] + 1]
      IN  IF /\ get_private_key(res_node) /= None
             /\ is_ancestor(res[pos], my_tree_idx, num_leaves)
          THEN IF pos > Len(node_msg.node_secrets)
               THEN [tag |-> "Panic", msg |-> "index out of bounds"]
               ELSE LET pt == ecies_decrypt(get_private_key(res_node)[1],
                                            node_msg.node_secrets[pos])
                    IN  IF pt.tag = "Ok"
                        THEN [tag |-> "Ok", pt |-> pt.pt,
                              idx |-> common_ancestor_idx]
                        ELSE pt
          ELSE comb_resolution_indexing(tree, res, pos + 1, node_msg, my_tree_idx,
                                        common_ancestor_idx)

\* The loop over the resolution in decrypt_direct_path_message, from position
\* pos (1-based here, pos - 1 in the code).
RECURSIVE comb_resolution(_, _, _, _, _, _)
comb_resolution(tree, res, pos, node_msg, my_tree_idx, common_ancestor_idx) ==
    IF pos > Len(res)
    THEN TreeError("Cannot find node in resolution with known private key")
    ELSE
      LET num_leaves == num_leaves_in_tree(size(tree))
          res_node   == tree[res[pos] + 1]
      IN  IF /\ get_private_key(res_node) /= None
             /\ is_ancestor(res[pos], my_tree_idx, num_leaves)
          THEN IF pos > Len(node_msg.node_secrets)
               THEN TreeError("Malformed DirectPathMessage")
               ELSE LET pt == ecies_decrypt(get_private_key(res_node)[1],
                                            node_msg.node_secrets[pos])
                    IN  IF pt.tag = "Ok"
                        THEN [tag |-> "Ok", pt |-> pt.pt,
                              idx |-> common_ancestor_idx]
                        ELSE pt
          ELSE comb_resolution(tree, res, pos + 1, node_msg, my_tree_idx,
                               common_ancestor_idx)

\* Mutant of decrypt_direct_path_message: the common ancestor is looked up in
\* the direct path bound on entry, which leaves out the sender and the root.
decrypt_direct_path_message_in_direct_path(tree, direct_path_msg, sender_tree_idx, my_tree_idx) ==
    LET num_leaves  == num_leaves_in_tree(size(tree))
        direct_path == node_direct_path(sender_tree_idx, num_leaves)
    IN
    IF sender_tree_idx >= size(tree) \/ my_tree_idx >= size(tree)
    THEN TreeError("Input index out of range")
    ELSE IF \/ is_ancestor(sender_tree_idx, my_tree_idx, num_leaves)
            \/ is_ancestor(my_tree_idx, sender_tree_idx, num_leaves)
    THEN TreeError("Cannot decrypt messages from ancestors or descendants")
    ELSE
      LET common_ancestor_idx ==
              common_ancestor(sender_tree_idx, my_tree_idx, num_leaves)
          ext_path == direct_path
          found    == {k \in 1..Len(ext_path) : ext_path[k] = common_ancestor_idx}
      IN
      IF found = {}
      THEN [tag |-> "Panic",
            msg |-> "common ancestor somehow did not appear in direct path"]
      ELSE
        LET pos_in_msg_vec == (CHOOSE k \in found : \A m \in found : k <= m) - 1
        IN
        IF pos_in_msg_vec >= Len(direct_path_msg)
        THEN TreeError("Malformed DirectPathMessage")
        ELSE
          LET node_msg == direct_path_msg[pos_in_msg_vec + 1]
              left     == node_left_child(common_ancestor_idx)
              right    == node_right_child(common_ancestor_idx, num_leaves)
              copath_ancestor_idx ==
                  IF is_ancestor(left, my_tree_idx, num_leaves) THEN left
                  ELSE right
          IN  comb_resolution(tree, resolution(tree, copath_ancestor_idx), 1,
                              node_msg, my_tree_idx, common_ancestor_idx)

\* direct_path is bound on entry, before the range check, and never read.
decrypt_direct_path_message(tree, direct_path_msg, sender_tree_idx, my_tree_idx) ==
    LET num_leaves  == num_leaves_in_tree(size(tree))
        direct_path == node_direct_path(sender_tree_idx, num_leaves)
    IN
    IF sender_tree_idx >= size(tree) \/ my_tree_idx >= size(tree)
    THEN TreeError("Input index out of range")
    ELSE IF \/ is_ancestor(sender_tree_idx, my_tree_idx, num_leaves)
            \/ is_ancestor(my_tree_idx, sender_tree_idx, num_leaves)
    THEN TreeError("Cannot decrypt messages from ancestors or descendants")
    ELSE
      LET common_ancestor_idx ==
              common_ancestor(sender_tree_idx, my_tree_idx, num_leaves)
          ext_path == node_extended_direct_path(sender_tree_idx, num_leaves)
          found    == {k \in 1..Len(ext_path) : ext_path[k] = common_ancestor_idx}
      IN
      IF found = {}
      THEN [tag |-> "Panic",
            msg |-> "common ancestor somehow did not appear in direct path"]
      ELSE
        LET pos_in_msg_vec == (CHOOSE k \in found : \A m \in found : k <= m) - 1
        IN
        IF pos_in_msg_vec >= Len(direct_path_msg)
        THEN TreeError("Malformed DirectPathMessage")
        ELSE
          LET node_msg == direct_path_msg[pos_in_msg_vec + 1]
              left     == node_left_child(common_ancestor_idx)
              right    == node_right_child(common_ancestor_idx, num_leaves)
              copath_ancestor_idx ==
                  IF is_ancestor(left, my_tree_idx, num_leaves) THEN left
                  ELSE right
          IN  comb_resolution(tree, resolution(tree, copath_ancestor_idx), 1,
                              node_msg, my_tree_idx, common_ancestor_idx)

\* The node secrets for which cs.derive_key_pair returns an error.  Which
\* secrets a cipher suite rejects is its own affair: here, a path secret drawn
\* from the seed MaxLeaves + 1 + n yields a rejected node secret at the n-th
\* node of its walk (each ratchet step appends two labels).
derive_key_pair_fails(secret) ==
    /\ secret.seed > MaxLeaves + 1
    /\ Len(secret.labels) = 2 * (secret.seed - (MaxLeaves + 1))

DeriveError == [tag |-> "Err", from |-> "derive_key_pair"]

\* Mutant of propogate_iteration: a node whose key pair cannot be derived is
\* blanked before the error is returned.
propogate_iteration_blanking(tree, path_secret, current_node_idx) ==
    LET num_leaves    == num_leaves_in_tree(size(tree))
        prk           == prk_from_bytes(path_secret)
        node_secret   == hkdf_expand_label(prk, "node")
        key_pair      == derive_key_pair(node_secret)
        current_node  ==
            update_secret(
                update_private_key(
                    update_public_key(tree[current_node_idx + 1], key_pair.public_key),
                    key_pair.private_key),
                node_secret)
    IN  IF derive_key_pair_fails(node_secret)
        THEN [tag |-> "Err", tree |-> [tree EXCEPT ![current_node_idx + 1] = Blank],
              path_secret |-> hkdf_expand_label(prk, "path"),
              current_node_idx |-> current_node_idx]
        ELSE [tag |-> IF current_node_idx = root_idx(num_leaves) THEN "Break" ELSE "Continue",
              tree |-> [tree EXCEPT ![current_node_idx + 1] = current_node],
              path_secret |-> hkdf_expand_label(prk, "path"),
              current_node_idx |->
                  IF current_node_idx = root_idx(num_leaves) THEN current_node_idx
                  ELSE node_parent(current_node_idx, num_leaves)]

\* Mutant of propogate_iteration: the loop breaks at a child of the root,
\* before the root is updated.
propogate_iteration_stopping_below_root(tree, path_secret, current_node_idx) ==
    LET num_leaves    == num_leaves_in_tree(size(tree))
        prk           == prk_from_bytes(path_secret)
        node_secret   == hkdf_expand_label(prk, "node")
        key_pair      == derive_key_pair(node_secret)
        current_node  ==
            update_secret(
                update_private_key(
                    update_public_key(tree[current_node_idx + 1], key_pair.public_key),
                    key_pair.private_key),
                node_secret)
    IN  IF derive_key_pair_fails(node_secret)
        THEN [tag |-> "Err", tree |-> tree,
              path_secret |-> hkdf_expand_label(prk, "path"),
              current_node_idx |-> current_node_idx]
        ELSE [tag |-> IF node_parent(current_node_idx, num_leaves) = root_idx(num_leaves)
                      THEN "Break" ELSE "Continue",
              tree |-> [tree EXCEPT ![current_node_idx + 1] = current_node],
              path_secret |-> hkdf_expand_label(prk, "path"),
              current_node_idx |-> node_parent(current_node_idx, num_leaves)]

\* One pass through the body of the loop of propogate_new_path_secret, at
\* current_node_idx: the tree, path_secret and current_node_idx as the pass
\* leaves them, and how it ends: with `?` returning the error of
\* derive_key_pair (before the node is touched), with break at the root, or
\* with a step up to the parent.
propogate_iteration(tree, path_secret, current_node_idx) ==
    LET num_leaves    == num_leaves_in_tree(size(tree))
        root_node_idx == root_idx(num_leaves)
        prk           == prk_from_bytes(path_secret)
        node_secret   == hkdf_expand_label(prk, "node")
        next_secret   == hkdf_expand_label(prk, "path")
        key_pair      == derive_key_pair(node_secret)
        current_node  ==
            update_secret(
                update_private_key(
                    update_public_key(tree[current_node_idx + 1],
                                      key_pair.public_key),
                    key_pair.private_key),
                node_secret)
        updated       == [tree EXCEPT ![current_node_idx + 1] = current_node]
    IN  IF derive_key_pair_fails(node_secret)
        THEN [tag |-> "Err", tree |-> tree, path_secret |-> next_secret,
              current_node_idx |-> current_node_idx]
        ELSE IF current_node_idx = root_node_idx
        THEN [tag |-> "Break", tree |-> updated, path_secret |-> next_secret,
              current_node_idx |-> current_node_idx]
        ELSE [tag |-> "Continue", tree |-> updated, path_secret |-> next_secret,
              current_node_idx |-> node_parent(current_node_idx, num_leaves)]

\* Mutant of propogate_loop: the path secret is not ratcheted on the way up.
RECURSIVE propogate_loop_no_ratchet(_, _, _)
propogate_loop_no_ratchet(tree, path_secret, current_node_idx) ==
    LET pass == propogate_iteration(tree, path_secret, current_node_idx)
    IN  IF pass.tag = "Err" THEN [tree |-> pass.tree, ret |-> DeriveError]
        ELSE IF pass.tag = "Break" THEN [tree |-> pass.tree, ret |-> [tag |-> "Ok"]]
        ELSE propogate_loop_no_ratchet(pass.tree, path_secret, pass.current_node_idx)

\* The loop of propogate_new_path_secret, from the node it is about to update:
\* the tree as the call leaves it, and what the call returns.
RECURSIVE propogate_loop(_, _, _)
propogate_loop(tree, path_secret, current_node_idx) ==
    LET pass == propogate_iteration(tree, path_secret, current_node_idx)
    IN  IF pass.tag = "Err" THEN [tree |-> pass.tree, ret |-> DeriveError]
        ELSE IF pass.tag = "Break" THEN [tree |-> pass.tree, ret |-> [tag |-> "Ok"]]
        ELSE propogate_loop(pass.tree, pass.path_secret, pass.current_node_idx)

\* Mutant of propogate_new_path_secret: only the start node is updated.
propogate_new_path_secret_start_only(tree, path_secret, start_idx) ==
    LET node_secret == hkdf_expand_label(prk_from_bytes(path_secret), "node")
        key_pair    == derive_key_pair(node_secret)
    IN  [tree |-> [tree EXCEPT ![start_idx + 1] =
                      update_secret(
                          update_private_key(
                              update_public_key(@, key_pair.public_key),
                              key_pair.private_key),
                          node_secret)],
         ret  |-> [tag |-> "Ok"]]

\* Mutant of propogate_new_path_secret: the sibling of the start node is
\* blanked as well.
propogate_new_path_secret_blanking_sibling(tree, path_secret, start_idx) ==
    LET r == propogate_loop(tree, path_secret, start_idx)
        s == node_sibling(start_idx, num_leaves_in_tree(size(tree)))
    IN  [r EXCEPT !.tree = IF s = start_idx THEN @ ELSE [@ EXCEPT ![s + 1] = Blank]]

propogate_new_path_secret(tree, path_secret, start_idx) ==
    propogate_loop(tree, path_secret, start_idx)


(***************************************************************************)
(* Inputs.                                                                 *)
(***************************************************************************)
Indices(tree) == 0..(Len(tree) - 1)

\* The path secret a participant draws afresh; distinct from those of Fixture.
FreshSeeds == {MaxLeaves + 1}

\* DhPublicKey::Raw(DhPublicKeyRaw(Vec::new())): a key nobody holds the
\* private half of.
RawPublicKey == [kind |-> "pub", of |-> Bytes(0)]

\* The nodes handed to add_leaf_node: Blank, or the public key of a new member.
LeafInputs ==
    {Blank, Filled(RawPublicKey, None, None)}

\* make_tree_from_int(t, num_nodes): node k is Filled iff bit k of t is set.
make_tree_from_int(t, num_nodes) ==
    [k \in 1..num_nodes |->
        IF (t \div pow2(k - 1)) % 2 = 0 THEN Blank
        ELSE Filled(RawPublicKey, None, None)]

\* for _ in 0..num_leaves { tree.add_leaf_node(Blank) }
RECURSIVE blank_tree(_)
blank_tree(num_leaves) ==
    IF num_leaves = 0 THEN new
    ELSE add_leaf_node(blank_tree(num_leaves - 1), Blank)

\* for i in 0..num_leaves { tree.propogate_new_path_secret(cs, vec![i; 32], 2 * i) }
\* for the leaves i in `members` (the test takes them all).
RECURSIVE fill_tree(_, _, _)
fill_tree(tree, i, members) ==
    IF i >= num_leaves_in_tree(size(tree)) THEN tree
    ELSE fill_tree(IF i \in members
                   THEN propogate_new_path_secret(tree, Bytes(i), 2 * i).tree
                   ELSE tree,
                   i + 1, members)

Fixture(num_leaves, members) == fill_tree(blank_tree(num_leaves), 0, members)

(***************************************************************************)
(* Actions: one per method call.                                           *)
(***************************************************************************)
Unit == [tag |-> "Unit"]

Returns(op, args, value) ==
    /\ call' = [op |-> op, args |-> args]
    /\ ret'  = value

AddLeafNode(node) ==
    /\ num_leaves_in_tree(size(nodes)) < MaxLeaves
    /\ nodes' = add_leaf_node(nodes, node)
    /\ Returns("add_leaf_node", <<node>>, Unit)
    /\ UNCHANGED <<peer, msg, group_state, frame>>

PropogateBlank(start_idx) ==
    /\ start_idx \in Indices(nodes)
    /\ nodes' = propogate_blank(nodes, start_idx)
    /\ Returns("propogate_blank", <<start_idx>>, Unit)
    /\ UNCHANGED <<peer, msg, group_state, frame>>

TruncateToLastNonblank ==
    /\ nodes' = truncate_to_last_nonblank(nodes)
    /\ Returns("truncate_to_last_nonblank", <<>>, Unit)
    /\ UNCHANGED <<peer, msg, group_state, frame>>

GetRootNode ==
    /\ Returns("get_root_node", <<>>, [tag |-> "Option", value |-> get_root_node(nodes)])
    /\ UNCHANGED <<nodes, peer, msg, group_state, frame>>

Resolution(idx) ==
    /\ idx \in Indices(nodes)
    /\ Returns("resolution", <<idx>>, [tag |-> "Vec", value |-> resolution(nodes, idx)])
    /\ UNCHANGED <<nodes, peer, msg, group_state, frame>>

PropogateNewPathSecret(seed, start_idx) ==
    /\ start_idx \in Indices(nodes)
    /\ nodes' = propogate_new_path_secret(nodes, Bytes(seed), start_idx).tree
    /\ Returns("propogate_new_path_secret", <<seed, start_idx>>,
               propogate_new_path_secret(nodes, Bytes(seed), start_idx).ret)
    /\ UNCHANGED <<peer, msg, group_state, frame>>

EncryptDirectPathSecrets(my_leaf_idx) ==
    LET result == encrypt_direct_path_secrets(nodes, my_leaf_idx)
    IN  /\ msg = None
        /\ Returns("encrypt_direct_path_secrets", <<my_leaf_idx>>, result)
        /\ msg' = IF result.tag = "Ok"
                  THEN Some([from |-> my_leaf_idx,
                             node_messages |-> result.node_messages])
                  ELSE msg
        /\ UNCHANGED <<nodes, peer, group_state, frame>>

\* The tree that encrypted the message decrypts it (as the test does).
DecryptDirectPathMessage(my_tree_idx) ==
    /\ msg /= None
    /\ call.op = "encrypt_direct_path_secrets"
    /\ Returns("decrypt_direct_path_message", <<msg[1].from, my_tree_idx>>,
               decrypt_direct_path_message(nodes, msg[1].node_messages,
                                           msg[1].from, my_tree_idx))
    /\ UNCHANGED <<nodes, peer, msg, group_state, frame>>

\* #[derive(Clone)]: a second participant takes its copy of the tree.
CloneTree ==
    /\ peer = new
    /\ nodes /= new
    /\ peer' = nodes
    /\ Returns("clone", <<>>, Unit)
    /\ UNCHANGED <<nodes, msg, group_state, frame>>

\* The second participant decrypts the message on its own copy.
PeerDecryptDirectPathMessage(my_tree_idx) ==
    /\ msg /= None
    /\ call.op = "encrypt_direct_path_secrets"
    /\ peer /= new
    /\ Returns("peer.decrypt_direct_path_message", <<msg[1].from, my_tree_idx>>,
               decrypt_direct_path_message(peer, msg[1].node_messages,
                                           msg[1].from, my_tree_idx))
    /\ UNCHANGED <<nodes, peer, msg, group_state, frame>>

(***************************************************************************)
(* Spec: the life of one tree, from new().                                 *)
(***************************************************************************)
Init ==
    /\ nodes = new
    /\ peer = new
    /\ msg = None
    /\ group_state = None
    /\ frame = None
    /\ call = [op |-> "new", args |-> <<>>]
    /\ ret = Unit

Next ==
    \/ \E node \in LeafInputs : AddLeafNode(node)
    \/ \E i \in Indices(nodes) : PropogateBlank(i)
    \/ TruncateToLastNonblank
    \/ \E seed \in FreshSeeds, i \in Indices(nodes) : PropogateNewPathSecret(seed, i)

Spec == Init /\ [][Next]_vars

(***************************************************************************)
(* SpecRes: the queries, on every blank/filled pattern of a tree.          *)
(***************************************************************************)
InitRes ==
    /\ \E num_leaves \in 1..MaxLeaves :
         \E t \in 0..(pow2(num_nodes_in_tree(num_leaves)) - 1) :
            nodes = make_tree_from_int(t, num_nodes_in_tree(num_leaves))
    /\ peer = new
    /\ msg = None
    /\ group_state = None
    /\ frame = None
    /\ call = [op |-> "make_tree_from_int", args |-> <<>>]
    /\ ret = Unit

NextRes ==
    \/ \E i \in Indices(nodes) : Resolution(i)
    \/ GetRootNode

SpecRes == InitRes /\ [][NextRes]_vars

(***************************************************************************)
(* SpecDP: one update round.  A tree keyed as in the direct path test,     *)
(* with any set of its leaves as members, may have paths blanked; a second *)
(* participant clones it; the sender updates a path, encrypts its direct   *)
(* path, and both trees decrypt the message.                               *)
(***************************************************************************)
InitDP ==
    /\ \E num_leaves \in 2..MaxLeaves :
         \E members \in SUBSET (0..(num_leaves - 1)) :
            nodes = Fixture(num_leaves, members)
    /\ peer = new
    /\ msg = None
    /\ group_state = None
    /\ frame = None
    /\ call = [op |-> "new", args |-> <<>>]
    /\ ret = Unit

NextDP ==
    \/ peer = new /\ \E i \in Indices(nodes) : PropogateBlank(i)
    \/ CloneTree
    \/ /\ call.op = "clone"
       /\ \E seed \in FreshSeeds, i \in Indices(nodes) : PropogateNewPathSecret(seed, i)
    \/ peer /= new /\ \E i \in 0..size(nodes) : EncryptDirectPathSecrets(i)
    \/ \E i \in 0..size(nodes) : DecryptDirectPathMessage(i)
    \/ \E i \in 0..size(nodes) : PeerDecryptDirectPathMessage(i)

SpecDP == InitDP /\ [][NextDP]_vars


(***************************************************************************)
(* SpecAdd: a tree built by add_leaf_node alone.                           *)
(***************************************************************************)
AddInputs ==
    LeafInputs
    \cup {Filled(derive_key_pair(Bytes(s)).public_key, None, None) : s \in FreshSeeds}

NextAdd == \E node \in AddInputs : AddLeafNode(node)

SpecAdd == Init /\ [][NextAdd]_vars

(***************************************************************************)
(* SpecNode: the methods of RatchetTreeNode, called on the nodes of a tree *)
(* through get_mut(idx) / get(idx).                                        *)
(***************************************************************************)
Panic(text) == [tag |-> "Panic", msg |-> text]

PublicKeyInputs ==
    {RawPublicKey} \cup {derive_key_pair(Bytes(s)).public_key : s \in FreshSeeds}

PrivateKeyInputs == {derive_key_pair(Bytes(s)).private_key : s \in FreshSeeds}

SecretInputs == {Bytes(s) : s \in FreshSeeds}

\* Hash output lengths handed in as secret_len.
SecretLens == {32, 64}

IsFilled(idx) ==
    /\ idx \in Indices(nodes)
    /\ Returns("is_filled", <<idx>>, [tag |-> "bool", value |-> is_filled(nodes[idx + 1])])
    /\ UNCHANGED <<nodes, peer, msg, group_state, frame>>

UpdatePublicKey(idx, new_public_key) ==
    /\ idx \in Indices(nodes)
    /\ nodes' = [nodes EXCEPT ![idx + 1] = update_public_key(@, new_public_key)]
    /\ Returns("update_public_key", <<idx, new_public_key>>, Unit)
    /\ UNCHANGED <<peer, msg, group_state, frame>>

GetPublicKey(idx) ==
    /\ idx \in Indices(nodes)
    /\ Returns("get_public_key", <<idx>>,
               [tag |-> "Option", value |-> get_public_key(nodes[idx + 1])])
    /\ UNCHANGED <<nodes, peer, msg, group_state, frame>>

UpdatePrivateKey(idx, new_private_key) ==
    /\ idx \in Indices(nodes)
    /\ nodes' = [nodes EXCEPT ![idx + 1] = update_private_key(@, new_private_key)]
    /\ Returns("update_private_key", <<idx, new_private_key>>,
               IF is_filled(nodes[idx + 1]) THEN Unit
               ELSE Panic("tried to update private key of blank node"))
    /\ UNCHANGED <<peer, msg, group_state, frame>>

UpdateSecret(idx, new_secret) ==
    /\ idx \in Indices(nodes)
    /\ nodes' = [nodes EXCEPT ![idx + 1] = update_secret(@, new_secret)]
    /\ Returns("update_secret", <<idx, new_secret>>,
               IF is_filled(nodes[idx + 1]) THEN Unit
               ELSE Panic("tried to update secret of blank node"))
    /\ UNCHANGED <<peer, msg, group_state, frame>>

GetMutNodeSecret(idx, secret_len) ==
    /\ idx \in Indices(nodes)
    /\ nodes' = [nodes EXCEPT ![idx + 1] = get_mut_node_secret(@, secret_len).node]
    /\ Returns("get_mut_node_secret", <<idx, secret_len>>,
               [tag |-> "Option",
                value |-> get_mut_node_secret(nodes[idx + 1], secret_len).value])
    /\ UNCHANGED <<peer, msg, group_state, frame>>

GetSecret(idx) ==
    /\ idx \in Indices(nodes)
    /\ Returns("get_secret", <<idx>>,
               [tag |-> "Option", value |-> get_secret(nodes[idx + 1])])
    /\ UNCHANGED <<nodes, peer, msg, group_state, frame>>

GetPrivateKey(idx) ==
    /\ idx \in Indices(nodes)
    /\ Returns("get_private_key", <<idx>>,
               [tag |-> "Option", value |-> get_private_key(nodes[idx + 1])])
    /\ UNCHANGED <<nodes, peer, msg, group_state, frame>>

\* A tree of two Blank leaves: [Blank, Blank, Blank].
InitNode ==
    /\ nodes = add_leaf_node(add_leaf_node(new, Blank), Blank)
    /\ peer = new
    /\ msg = None
    /\ group_state = None
    /\ frame = None
    /\ call = [op |-> "add_leaf_node", args |-> <<Blank>>]
    /\ ret = Unit

NextNode ==
    \/ \E idx \in Indices(nodes) : IsFilled(idx)
    \/ \E idx \in Indices(nodes), k \in PublicKeyInputs : UpdatePublicKey(idx, k)
    \/ \E idx \in Indices(nodes) : GetPublicKey(idx)
    \/ \E idx \in Indices(nodes), k \in PrivateKeyInputs : UpdatePrivateKey(idx, k)
    \/ \E idx \in Indices(nodes), secret \in SecretInputs : UpdateSecret(idx, secret)
    \/ \E idx \in Indices(nodes), len \in SecretLens : GetMutNodeSecret(idx, len)
    \/ \E idx \in Indices(nodes) : GetSecret(idx)
    \/ \E idx \in Indices(nodes) : GetPrivateKey(idx)

SpecNode == InitNode /\ [][NextNode]_vars

(***************************************************************************)
(* SpecDec: a DirectPathMessage arrives from the network and is decrypted. *)
(* The sender (peer) holds the keyed tree and has propagated a fresh path  *)
(* secret from its leaf; the receiver (nodes) holds the tree as it was     *)
(* before, with private keys and secrets on the path of its own leaf only. *)
(***************************************************************************)
\* The tree as a member at leaf `holder` holds it: private_key and secret are
\* #[serde(skip)], so a node received over the wire is Filled{public_key,
\* None, None}; the holder knows the private halves on its own path.
View(tree, holder) ==
    [k \in 1..Len(tree) |->
        IF ~tree[k].filled \/ is_ancestor(k - 1, holder, num_leaves_in_tree(size(tree)))
        THEN tree[k]
        ELSE Filled(tree[k].public_key[1], None, None)]

\* The trees a group of num_leaves leaves is in: all leaves keyed or one
\* left Blank, and possibly the path of one leaf blanked.
GroupTrees(num_leaves) ==
    LET keyed == {Fixture(num_leaves, 0..(num_leaves - 1))}
                 \cup {Fixture(num_leaves, (0..(num_leaves - 1)) \ {i}) :
                           i \in 0..(num_leaves - 1)}
    IN  keyed \cup {propogate_blank(t, 2 * i) : t \in keyed, i \in 0..(num_leaves - 1)}

\* The message a sender at leaf s is to produce: one node message per node of
\* its extended direct path, each after the first with the node's secret
\* encrypted to the resolution of the copath node below it.
WireMessage(tree, s) ==
    LET num_leaves == num_leaves_in_tree(size(tree))
        ext        == node_extended_direct_path(s, num_leaves)
    IN  [k \in 1..Len(ext) |->
            [public_key   |-> get_public_key(tree[ext[k] + 1])[1],
             node_secrets |->
                 IF k = 1 THEN <<>>
                 ELSE encrypt_for_resolution(tree,
                          resolution(tree, node_sibling(ext[k - 1], num_leaves)),
                          get_secret(tree[ext[k] + 1])[1])]]

\* A message as it may arrive: whole, without its last node message, or
\* with the last ciphertext of every node message missing.
Arrivals(node_messages) ==
    {node_messages,
     SubSeq(node_messages, 1, Len(node_messages) - 1),
     [k \in 1..Len(node_messages) |->
         [node_messages[k] EXCEPT
             !.node_secrets = SubSeq(@, 1, Len(@) - 1)]]}

\* The messages a sender's tree gives rise to, for the sender at leaf s.
MessagesFrom(tree, s) ==
    Arrivals(WireMessage(tree, s))
    \cup (IF encrypt_direct_path_secrets(tree, s).tag = "Ok"
          THEN {encrypt_direct_path_secrets(tree, s).node_messages}
          ELSE {})

\* The leaf a message claimed to be from `from` was really encrypted at.
SenderLeaf(tree, from) ==
    IF from % 2 = 0 /\ from < size(tree) THEN from ELSE 0

InitDec ==
    /\ \/ /\ nodes = new
          /\ peer = new
          /\ msg = Some([from |-> 0, node_messages |-> <<>>])
       \/ \E num_leaves \in 1..MaxLeaves :
             \E tree \in GroupTrees(num_leaves), holder \in 0..(num_leaves - 1) :
                \E from \in 0..size(tree), seed \in FreshSeeds :
                   /\ nodes = View(tree, 2 * holder)
                   /\ peer = propogate_new_path_secret(tree, Bytes(seed),
                                                       SenderLeaf(tree, from)).tree
                   /\ \E node_messages \in MessagesFrom(peer, SenderLeaf(tree, from)) :
                         msg = Some([from |-> from, node_messages |-> node_messages])
    /\ group_state = None
    /\ frame = None
    /\ call = [op |-> "deliver", args |-> <<>>]
    /\ ret = Unit

\* The receiver decrypts the delivered message as node my_tree_idx.
DecryptDelivered(my_tree_idx) ==
    /\ call.op = "deliver"
    /\ Returns("decrypt_direct_path_message", <<msg[1].from, my_tree_idx>>,
               decrypt_direct_path_message(nodes, msg[1].node_messages,
                                           msg[1].from, my_tree_idx))
    /\ UNCHANGED <<nodes, peer, msg, group_state, frame>>

NextDec == \E i \in 0..size(nodes) : DecryptDelivered(i)

SpecDec == InitDec /\ [][NextDec]_vars

(***************************************************************************)
(* Handshake messages (handshake.rs).  The signature scheme and the HMAC   *)
(* are symbolic: a signature records the key and the bytes signed, a MAC   *)
(* the key and the bytes fed to its context.  Byte strings are sequences.  *)
(***************************************************************************)
\* cs.sig_impl.sign(identity_key, msg)
sign(identity_key, data) == [tag |-> "Signature", key |-> identity_key, data |-> data]

\* Signature::to_bytes
to_bytes(signature) == <<"sig", signature.key>> \o signature.data

\* ring::hmac::SigningKey::new(cs.hash_alg, key_value)
SigningKey_new(key_value) == [tag |-> "SigningKey", key_value |-> key_value]

\* ring::hmac::SigningContext::with_key(signing_key)
SigningContext_with_key(signing_key) == [key |-> signing_key, data |-> <<>>]

\* SigningContext::update(data)
ctx_update(ctx, data) == [ctx EXCEPT !.data = @ \o data]

\* SigningContext::sign(): the tag, as bytes
ctx_sign(ctx) == [tag |-> "hmac", key |-> ctx.key.key_value, data |-> ctx.data]

DirectPathMessage(node_messages) == [node_messages |-> node_messages]

GroupInit == [struct |-> "GroupInit"]

GroupAdd(index, init_key, welcome_info_hash) ==
    [index |-> index, init_key |-> init_key, welcome_info_hash |-> welcome_info_hash]

GroupUpdate(path) == [path |-> path]

GroupRemove(removed, path) == [removed |-> removed, path |-> path]

\* enum GroupOperation { Init(GroupInit), Add(GroupAdd), Update(GroupUpdate),
\* Remove(GroupRemove) }
GroupOperation(variant, body) == [variant |-> variant, body |-> body]

Handshake(prior_epoch, operation, signer_index, signature, confirmation) ==
    [prior_epoch  |-> prior_epoch,
     operation    |-> operation,
     signer_index |-> signer_index,
     signature    |-> signature,
     confirmation |-> confirmation]

(***************************************************************************)
(* Wire codec (tls_ser / tls_de), driven by the schema that the serde      *)
(* attributes of each type declare.  The wire is a sequence of units: a    *)
(* byte U8(n), or the encoding of a value of an opaque type (a public key, *)
(* a ciphertext, a signature, a credential, a cipher suite), which stands  *)
(* for its bytes and counts as one unit of length.  Values are within      *)
(* their declared bounds.                                                  *)
(***************************************************************************)
U8(n) == [u8 |-> n]

Opaque(kind, value) == [opaque |-> kind, of |-> value]

\* Schemas.
UIntT(width) == [t |-> "uint", width |-> width]
OpaqueT(kind) == [t |-> "opaque", kind |-> kind]
VecT(width, of) == [t |-> "vec", width |-> width, of |-> of]
StructT(fields, of) == [t |-> "struct", fields |-> fields, of |-> of]
EnumT(variants, of) == [t |-> "enum", variants |-> variants, of |-> of]
NodeT == [t |-> "node"]

\* A fixed-width big-endian integer.
RECURSIVE put_uint(_, _)
put_uint(n, width) ==
    IF width = 0 THEN <<>>
    ELSE Append(put_uint(n \div 256, width - 1), U8(n % 256))

RECURSIVE get_uint(_, _)
get_uint(bytes, width) ==
    IF width = 0 THEN 0
    ELSE 256 * get_uint(SubSeq(bytes, 1, width - 1), width - 1) + bytes[width].u8

IsU8(unit) == DOMAIN unit = {"u8"}

IndexOf(seq, x) == CHOOSE k \in 1..Len(seq) : seq[k] = x

\* Mutant of serialize_node: private_key and secret are not skipped.
serialize_node_unskipped(node) ==
    IF node.filled
    THEN <<U8(1), Opaque("DhPublicKey", node.public_key[1])>>
         \o (IF node.private_key = None THEN <<U8(0)>>
             ELSE <<U8(1), Opaque("DhPrivateKey", node.private_key[1])>>)
         \o (IF node.secret = None THEN <<U8(0)>>
             ELSE <<U8(1), Opaque("NodeSecret", node.secret[1])>>)
    ELSE <<U8(0)>>

\* #[derive(Serialize)] of RatchetTreeNode, an enum with a u8 discriminant:
\* Blank is 0 and carries nothing, Filled is 1 and carries its public key;
\* private_key and secret are #[serde(skip)].
serialize_node(node) ==
    IF node.filled
    THEN <<U8(1), Opaque("DhPublicKey", node.public_key[1])>>
    ELSE <<U8(0)>>

RECURSIVE serialize_to_bytes(_, _)
RECURSIVE serialize_seq(_, _, _)
RECURSIVE serialize_fields(_, _, _)

\* The elements of a vector from the k-th on, concatenated.
serialize_seq(schema, value, k) ==
    IF k > Len(value) THEN <<>>
    ELSE serialize_to_bytes(schema, value[k]) \o serialize_seq(schema, value, k + 1)

\* The fields of a struct from the k-th on, in declaration order.
serialize_fields(schema, value, k) ==
    IF k > Len(schema.fields) THEN <<>>
    ELSE serialize_to_bytes(schema.of[k], value[schema.fields[k]])
         \o serialize_fields(schema, value, k + 1)

serialize_to_bytes(schema, value) ==
    CASE schema.t = "uint"   -> put_uint(value, schema.width)
      [] schema.t = "opaque" -> <<Opaque(schema.kind, value)>>
      [] schema.t = "vec"    ->
            LET body == serialize_seq(schema.of, value, 1)
            IN  put_uint(Len(body), schema.width) \o body
      [] schema.t = "struct" -> serialize_fields(schema, value, 1)
      [] schema.t = "unit"   -> <<>>
      [] schema.t = "enum"   ->
            LET k == IndexOf(schema.variants, value.variant)
            IN  <<U8(k - 1)>> \o serialize_to_bytes(schema.of[k], value.body)
      [] schema.t = "node"   -> serialize_node(value)

SerializationError == [tag |-> "SerializationError"]

\* What a parse returns: the value and the units left over.
Parsed(value, rest) == [tag |-> "Ok", value |-> value, rest |-> rest]

\* #[derive(Deserialize)] of RatchetTreeNode: the discriminant, then for
\* Filled the public key; the skipped fields take their default, None.
parse_node(bytes) ==
    IF bytes = <<>> \/ ~IsU8(bytes[1]) THEN SerializationError
    ELSE IF bytes[1].u8 = 0 THEN Parsed(Blank, Tail(bytes))
    ELSE IF bytes[1].u8 = 1
    THEN IF Len(bytes) >= 2 /\ ~IsU8(bytes[2]) /\ bytes[2].opaque = "DhPublicKey"
         THEN Parsed(Filled(bytes[2].of, None, None), SubSeq(bytes, 2 + 1, Len(bytes)))
         ELSE SerializationError
    ELSE SerializationError

RECURSIVE parse(_, _)
RECURSIVE parse_seq(_, _, _)
RECURSIVE parse_fields(_, _, _, _)

\* The elements of a vector, until its bytes are used up.
parse_seq(schema, bytes, acc) ==
    IF bytes = <<>> THEN Parsed(acc, <<>>)
    ELSE LET r == parse(schema, bytes)
         IN  IF r.tag /= "Ok" THEN r
             ELSE IF r.rest = bytes THEN SerializationError
             ELSE parse_seq(schema, r.rest, Append(acc, r.value))

\* The fields of a struct from the k-th on; acc holds the values so far.
parse_fields(schema, bytes, k, acc) ==
    IF k > Len(schema.fields)
    THEN Parsed([f \in SeqToSet(schema.fields) |-> acc[IndexOf(schema.fields, f)]], bytes)
    ELSE LET r == parse(schema.of[k], bytes)
         IN  IF r.tag /= "Ok" THEN r
             ELSE parse_fields(schema, r.rest, k + 1, Append(acc, r.value))

parse(schema, bytes) ==
    CASE schema.t = "uint"   ->
            IF Len(bytes) >= schema.width
               /\ \A k \in 1..schema.width : IsU8(bytes[k])
            THEN Parsed(get_uint(bytes, schema.width), SubSeq(bytes, schema.width + 1, Len(bytes)))
            ELSE SerializationError
      [] schema.t = "opaque" ->
            IF bytes /= <<>> /\ ~IsU8(bytes[1]) /\ bytes[1].opaque = schema.kind
            THEN Parsed(bytes[1].of, Tail(bytes))
            ELSE SerializationError
      [] schema.t = "vec"    ->
            LET n == parse(UIntT(schema.width), bytes)
            IN  IF n.tag /= "Ok" THEN n
                ELSE IF Len(n.rest) < n.value THEN SerializationError
                ELSE LET r == parse_seq(schema.of, SubSeq(n.rest, 1, n.value), <<>>)
                     IN  IF r.tag /= "Ok" THEN r
                         ELSE Parsed(r.value, SubSeq(n.rest, n.value + 1, Len(n.rest)))
      [] schema.t = "struct" -> parse_fields(schema, bytes, 1, <<>>)
      [] schema.t = "unit"   -> Parsed(schema.value, bytes)
      [] schema.t = "enum"   ->
            LET d == parse(UIntT(1), bytes)
            IN  IF d.tag /= "Ok" THEN d
                ELSE IF d.value >= Len(schema.variants) THEN SerializationError
                ELSE LET r == parse(schema.of[d.value + 1], d.rest)
                     IN  IF r.tag /= "Ok" THEN r
                         ELSE Parsed([variant |-> schema.variants[d.value + 1],
                                      body |-> r.value], r.rest)
      [] schema.t = "node"   -> parse_node(bytes)

\* T::deserialize on a whole input.
deserialize(schema, bytes) ==
    LET r == parse(schema, bytes)
    IN  IF r.tag /= "Ok" THEN r
        ELSE IF r.rest /= <<>> THEN SerializationError
        ELSE [tag |-> "Ok", value |-> r.value]

\* Mutant of from_group_op: the MAC context is fed the signature before the
\* transcript hash.
from_group_op_sig_first(state, op) ==
    LET signature == sign(state.identity_key, state.transcript_hash)
        ctx0 == SigningContext_with_key(SigningKey_new(state.epoch_secrets.confirmation_key))
        ctx1 == ctx_update(ctx0, to_bytes(signature))
        ctx2 == ctx_update(ctx1, state.transcript_hash)
    IN  Handshake(state.epoch, op, state.roster_index, signature, ctx_sign(ctx2))

\* Mutant of from_group_op: the signature covers the operation's variant too.
from_group_op_signing_op(state, op) ==
    LET signature == sign(state.identity_key, state.transcript_hash \o <<op.variant>>)
        ctx0 == SigningContext_with_key(SigningKey_new(state.epoch_secrets.confirmation_key))
        ctx1 == ctx_update(ctx0, state.transcript_hash)
        ctx2 == ctx_update(ctx1, to_bytes(signature))
    IN  Handshake(state.epoch, op, state.roster_index, signature, ctx_sign(ctx2))

from_group_op(state, op) ==
    LET signature == sign(state.identity_key, state.transcript_hash)
        confirmation ==
            LET confirmation_key == SigningKey_new(state.epoch_secrets.confirmation_key)
                ctx0 == SigningContext_with_key(confirmation_key)
                ctx1 == ctx_update(ctx0, state.transcript_hash)
                ctx2 == ctx_update(ctx1, to_bytes(signature))
            IN  ctx_sign(ctx2)
    IN  Handshake(state.epoch, op, state.roster_index, signature, confirmation)

\* The group states handed to from_group_op: the fields of GroupState that
\* it reads.
GroupStateInputs ==
    {[epoch           |-> epoch,
      roster_index    |-> roster_index,
      identity_key    |-> identity_key,
      transcript_hash |-> transcript_hash,
      epoch_secrets   |-> [confirmation_key |-> confirmation_key]] :
        epoch \in {0, 1}, roster_index \in 0..(MaxLeaves - 1),
        identity_key \in {"ik0", "ik1"}, transcript_hash \in {<<"a">>, <<"b", "b">>},
        confirmation_key \in {"ck0", "ck1"}}

\* The paths carried by Update and Remove: an empty one, and the message a
\* member of a two-leaf group encrypts.
PathInputs ==
    {DirectPathMessage(<<>>),
     DirectPathMessage(encrypt_direct_path_secrets(Fixture(2, {0, 1}), 0).node_messages)}

\* struct UserInitKey, with one init key.
UserInitKeyInputs ==
    {[user_init_key_id   |-> <<7>>,
      supported_versions |-> <<0>>,
      cipher_suites      |-> <<"X25519_SHA256_AES128GCM">>,
      init_keys          |-> <<derive_key_pair(Bytes(s)).public_key>>,
      credential         |-> "credential",
      signature          |-> sign("ik1", <<"uik">>)] : s \in FreshSeeds}

GroupOperationInputs ==
    {GroupOperation("Init", GroupInit)}
    \cup {GroupOperation("Add", GroupAdd(index, init_key, <<8, 9>>)) :
             index \in {0, MaxLeaves}, init_key \in UserInitKeyInputs}
    \cup {GroupOperation("Update", GroupUpdate(path)) : path \in PathInputs}
    \cup {GroupOperation("Remove", GroupRemove(removed, path)) :
             removed \in {0, 1}, path \in PathInputs}

FromGroupOp(op) ==
    /\ Returns("from_group_op", <<op>>, from_group_op(group_state, op))
    /\ UNCHANGED <<nodes, peer, msg, group_state, frame>>

(***************************************************************************)
(* SpecHs: a participant with a GroupState builds Handshake messages.      *)
(***************************************************************************)
InitHs ==
    /\ nodes = new
    /\ peer = new
    /\ msg = None
    /\ group_state \in GroupStateInputs
    /\ frame = None
    /\ call = [op |-> "new", args |-> <<>>]
    /\ ret = Unit

NextHs == \E op \in GroupOperationInputs : FromGroupOp(op)

SpecHs == InitHs /\ [][NextHs]_vars

(***************************************************************************)
(* SpecCodec: a value is serialized, the bytes travel (and may be tampered *)
(* with), and the receiver deserializes them.  A deserialized tree becomes *)
(* the receiver's tree, `peer`.  One message travels per run.              *)
(***************************************************************************)
\* #[serde(rename = "nodes__bound_u32")] nodes: Vec<RatchetTreeNode>
RatchetTreeT == VecT(4, NodeT)

\* node_messages__bound_u16 of DirectPathNodeMessage { public_key,
\* node_secrets__bound_u16 }
DirectPathMessageT ==
    StructT(<<"node_messages">>,
            <<VecT(2, StructT(<<"public_key", "node_secrets">>,
                              <<OpaqueT("DhPublicKey"),
                                VecT(2, OpaqueT("EciesCiphertext"))>>))>>)

UserInitKeyT ==
    StructT(<<"user_init_key_id", "supported_versions", "cipher_suites", "init_keys",
              "credential", "signature">>,
            <<VecT(1, UIntT(1)), VecT(1, UIntT(1)), VecT(1, OpaqueT("CipherSuite")),
              VecT(2, OpaqueT("DhPublicKey")), OpaqueT("Credential"),
              OpaqueT("Signature")>>)

\* Mutant of GroupOperationT: Update is declared before Add.
GroupOperationT_update_first ==
    EnumT(<<"Init", "Update", "Add", "Remove">>,
          <<[t |-> "unit", value |-> GroupInit],
            StructT(<<"path">>, <<DirectPathMessageT>>),
            StructT(<<"index", "init_key", "welcome_info_hash">>,
                    <<UIntT(4), UserInitKeyT, VecT(1, UIntT(1))>>),
            StructT(<<"removed", "path">>, <<UIntT(4), DirectPathMessageT>>)>>)

\* #[serde(rename = "GroupOperation__enum_u8")]
\* GroupInit; GroupAdd { index, init_key, welcome_info_hash__bound_u8 };
\* GroupUpdate { path }; GroupRemove { removed, path }
GroupOperationT ==
    EnumT(<<"Init", "Add", "Update", "Remove">>,
          <<[t |-> "unit", value |-> GroupInit],
            StructT(<<"index", "init_key", "welcome_info_hash">>,
                    <<UIntT(4), UserInitKeyT, VecT(1, UIntT(1))>>),
            StructT(<<"path">>, <<DirectPathMessageT>>),
            StructT(<<"removed", "path">>, <<UIntT(4), DirectPathMessageT>>)>>)

HandshakeT ==
    StructT(<<"prior_epoch", "operation", "signer_index", "signature", "confirmation">>,
            <<UIntT(4), GroupOperationT, UIntT(4), OpaqueT("Signature"),
              VecT(1, UIntT(1))>>)

Schema(type) ==
    CASE type = "RatchetTree"       -> RatchetTreeT
      [] type = "Handshake"         -> HandshakeT
      [] type = "UserInitKey"       -> UserInitKeyT
      [] type = "DirectPathMessage" -> DirectPathMessageT

\* The values serialized: Handshakes as they come off the wire (the
\* confirmation is a byte string), and the direct path messages of the
\* members of keyed trees.
CodecInputs(type) ==
    CASE type = "Handshake" ->
            {Handshake(256 * (Len(confirmation) - 1) + 1, op, MaxLeaves - 1,
                       sign("ik0", <<"a">>), confirmation) :
                op \in GroupOperationInputs, confirmation \in {<<1>>, <<0, 255>>}}
      [] type = "UserInitKey" -> UserInitKeyInputs
      [] type = "DirectPathMessage" ->
            PathInputs
            \cup {DirectPathMessage(
                      encrypt_direct_path_secrets(Fixture(MaxLeaves, 0..(MaxLeaves - 1)),
                                                  0).node_messages)}

Serialize(type, value) ==
    /\ msg = None
    /\ msg' = Some([type |-> type, bytes |-> serialize_to_bytes(Schema(type), value)])
    /\ Returns("serialize", <<type, value>>, msg'[1].bytes)
    /\ UNCHANGED <<nodes, peer, group_state, frame>>

\* The k-th unit of the bytes in flight is replaced by the byte n, or (n = -1)
\* the bytes are cut short before it.
Tamper(k, n) ==
    /\ call.op = "serialize"
    /\ msg /= None
    /\ k \in 1..Len(msg[1].bytes)
    /\ msg' = Some([msg[1] EXCEPT !.bytes =
                        IF n = -1 THEN SubSeq(@, 1, k - 1) ELSE [@ EXCEPT ![k] = U8(n)]])
    /\ Returns("tamper", <<k, n>>, Unit)
    /\ UNCHANGED <<nodes, peer, group_state, frame>>

Deserialize ==
    /\ msg /= None
    /\ Returns("deserialize", <<msg[1].type, msg[1].bytes>>,
               deserialize(Schema(msg[1].type), msg[1].bytes))
    /\ peer' = IF msg[1].type = "RatchetTree" /\ ret'.tag = "Ok" THEN ret'.value ELSE peer
    /\ UNCHANGED <<nodes, msg, group_state, frame>>

InitCodec ==
    /\ \E num_leaves \in 1..MaxLeaves :
         \E joined \in 0..num_leaves :
            nodes = Fixture(num_leaves, 0..(joined - 1))
    /\ peer = new
    /\ msg = None
    /\ group_state = None
    /\ frame = None
    /\ call = [op |-> "new", args |-> <<>>]
    /\ ret = Unit

NextCodec ==
    \/ Serialize("RatchetTree", nodes)
    \/ \E type \in {"Handshake", "UserInitKey", "DirectPathMessage"} :
          \E value \in CodecInputs(type) : Serialize(type, value)
    \/ \E k \in 1..(IF msg = None THEN 0 ELSE Len(msg[1].bytes)) :
          \E n \in {-1, 0, 1, 4} : Tamper(k, n)
    \/ Deserialize

SpecCodec == InitCodec /\ [][NextCodec]_vars

(***************************************************************************)
(* SpecProp: one call of propogate_new_path_secret on a keyed tree, with   *)
(* path secrets whose key pair derivation fails at some node of the walk.  *)
(***************************************************************************)
\* The n-th of these seeds yields the node secret that derive_key_pair rejects
\* at the n-th node of the walk; the longest walk in a tree of MaxLeaves
\* leaves has log2(num_nodes) + 1 nodes.
FailingSeeds ==
    {MaxLeaves + 1 + n : n \in 1..(log2(num_nodes_in_tree(MaxLeaves)) + 1)}

InitProp ==
    /\ \E num_leaves \in 1..MaxLeaves :
         \E members \in SUBSET (0..(num_leaves - 1)) :
            nodes = Fixture(num_leaves, members)
    /\ peer = new
    /\ msg = None
    /\ group_state = None
    /\ frame = None
    /\ call = [op |-> "new", args |-> <<>>]
    /\ ret = Unit

NextProp ==
    /\ call.op = "new"
    /\ \E seed \in FreshSeeds \cup FailingSeeds, i \in Indices(nodes) :
          PropogateNewPathSecret(seed, i)

SpecProp == InitProp /\ [][NextProp]_vars

(***************************************************************************)
(* SpecWalk: one call of propogate_new_path_secret, pass by pass.  `frame` *)
(* holds the locals path_secret and current_node_idx between the passes of *)
(* the loop.  The code is sequential: a pass that can run does run, which  *)
(* is the fairness of FairWalk.                                            *)
(***************************************************************************)
\* The call is entered: lines 459-463.
EnterPropogate(seed, start_idx) ==
    /\ call.op = "new"
    /\ frame = None
    /\ start_idx \in Indices(nodes)
    /\ frame' = Some([path_secret |-> Bytes(seed), current_node_idx |-> start_idx])
    /\ Returns("propogate_new_path_secret", <<seed, start_idx>>, [tag |-> "Running"])
    /\ UNCHANGED <<nodes, peer, msg, group_state>>

\* One pass of the loop, lines 466-490; the call returns when the pass ends
\* with an error or with break.
LoopPass ==
    /\ frame /= None
    /\ LET pass == propogate_iteration(nodes, frame[1].path_secret,
                                       frame[1].current_node_idx)
       IN  /\ nodes' = pass.tree
           /\ IF pass.tag = "Continue"
              THEN /\ frame' = Some([path_secret |-> pass.path_secret,
                                     current_node_idx |-> pass.current_node_idx])
                   /\ ret' = ret
              ELSE /\ frame' = None
                   /\ ret' = IF pass.tag = "Break" THEN [tag |-> "Ok"] ELSE DeriveError
    /\ UNCHANGED <<peer, msg, group_state, call>>

\* Every non-empty tree, all Blank or all Filled.
InitWalk ==
    /\ \E num_leaves \in 1..MaxLeaves :
         \E t \in {0, pow2(num_nodes_in_tree(num_leaves)) - 1} :
            nodes = make_tree_from_int(t, num_nodes_in_tree(num_leaves))
    /\ peer = new
    /\ msg = None
    /\ group_state = None
    /\ frame = None
    /\ call = [op |-> "new", args |-> <<>>]
    /\ ret = Unit

NextWalk ==
    \/ \E seed \in FreshSeeds \cup FailingSeeds, i \in Indices(nodes) :
          EnterPropogate(seed, i)
    \/ LoopPass

SpecWalk == InitWalk /\ [][NextWalk]_vars

FairWalk == SpecWalk /\ WF_vars(LoopPass)

(***************************************************************************)
(* Properties.                                                             *)
(***************************************************************************)
NumLeaves(tree) == num_leaves_in_tree(size(tree))

Node(tree, i) == tree[i + 1]

\* The node holds the key pair of its secret, as propogate_new_path_secret
\* leaves a node.
Keyed(node) ==
    /\ node.filled
    /\ node.secret /= None
    /\ node.public_key = Some(derive_key_pair(node.secret[1]).public_key)
    /\ node.private_key = Some(derive_key_pair(node.secret[1]).private_key)

\* The path from start to the root is as propogate_new_path_secret(_, start)
\* left it: running it again with the path secret that the secret of `start`
\* was expanded from changes nothing.
IsPropagatedFrom(tree, start) ==
    /\ start \in Indices(tree)
    /\ Keyed(Node(tree, start))
    /\ LET labels == Node(tree, start).secret[1].labels
       IN  /\ Len(labels) >= 2
           /\ SubSeq(labels, Len(labels) - 1, Len(labels)) = <<"prk", "node">>
           /\ propogate_new_path_secret(
                  tree,
                  [Node(tree, start).secret[1] EXCEPT
                      !.labels = SubSeq(labels, 1, Len(labels) - 2)],
                  start).tree = tree

\* r may decrypt a message of sender s: both in the tree, neither an ancestor
\* of the other.
MayDecrypt(tree, s, r) ==
    /\ s \in Indices(tree)
    /\ r \in Indices(tree)
    /\ r /= s
    /\ ~is_ancestor(s, r, NumLeaves(tree))
    /\ ~is_ancestor(r, s, NumLeaves(tree))

\* C1: direct-path round trip.  On a tree keyed by propogate_new_path_secret
\* from every leaf, with the sender's path as its own propagation left it,
\* decrypting the sender's message as any r that is neither s, an ancestor of
\* s nor a descendant of s returns (secret of ca, ca), ca their common ancestor.
C1_RoundTrip ==
    ( /\ call.op = "decrypt_direct_path_message"
      /\ \A i \in Indices(nodes) : Keyed(Node(nodes, i))
      /\ MayDecrypt(nodes, call.args[1], call.args[2]) )
    => LET ca == common_ancestor(call.args[1], call.args[2], NumLeaves(nodes))
       IN  /\ ret.tag = "Ok"
           /\ ret.idx = ca
           /\ Some(ret.pt) = get_secret(Node(nodes, ca))

\* The positions <<k, j>> of the ciphertexts of a message that are encrypted
\* to the public key of r or of an ancestor of r.
CiphertextsFor(tree, node_messages, r) ==
    {kj \in UNION {{<<k, j>> : j \in 1..Len(node_messages[k].node_secrets)} :
                       k \in 1..Len(node_messages)} :
        \E a \in Indices(tree) :
            /\ is_ancestor(a, r, NumLeaves(tree))
            /\ Node(tree, a).filled
            /\ node_messages[kj[1]].node_secrets[kj[2]].to = Node(tree, a).public_key[1]}

\* C2: coverage by exactly one ciphertext.  In the message encrypted from
\* leaf s, whose path has been propagated, every other Filled leaf finds
\* exactly one ciphertext encrypted to its own key or to an ancestor's.
C2_ExactlyOneCiphertext ==
    ( /\ call.op = "encrypt_direct_path_secrets"
      /\ ret.tag = "Ok"
      /\ IsPropagatedFrom(nodes, call.args[1]) )
    => \A k \in 1..NumLeaves(nodes) :
          LET r == tree_leaves(NumLeaves(nodes))[k]
          IN  (r /= call.args[1] /\ Node(nodes, r).filled)
              => Cardinality(CiphertextsFor(nodes, ret.node_messages, r)) = 1

\* C3: sender/receiver convergence.  The sender has propagated a path secret
\* from its leaf and encrypted; a receiver holding its own keys decrypts on
\* its copy and propagates what it recovered from the common ancestor: its
\* tree then agrees with the sender's, in secret and public key, on every
\* node from the common ancestor up to the root.
C3_Convergence ==
    ( /\ call.op = "peer.decrypt_direct_path_message"
      /\ IsPropagatedFrom(nodes, call.args[1])
      /\ MayDecrypt(peer, call.args[1], call.args[2])
      /\ Keyed(Node(peer, call.args[2])) )
    => /\ ret.tag = "Ok"
       /\ LET ca    == common_ancestor(call.args[1], call.args[2], NumLeaves(peer))
              after == propogate_new_path_secret(peer, ret.pt, ret.idx).tree
              walk  == node_extended_direct_path(ca, NumLeaves(peer))
          IN  \A k \in 1..Len(walk) :
                 /\ Node(after, walk[k]).secret = Node(nodes, walk[k]).secret
                 /\ Node(after, walk[k]).public_key = Node(nodes, walk[k]).public_key

\* The resolution of a node, as defined: the node itself if Filled, nothing
\* for a Blank leaf, else the resolution of the left child followed by that
\* of the right child.
RECURSIVE ResolutionDef(_, _)
ResolutionDef(tree, i) ==
    IF Node(tree, i).filled THEN <<i>>
    ELSE IF i % 2 = 0 THEN <<>>
    ELSE ResolutionDef(tree, node_left_child(i))
         \o ResolutionDef(tree, node_right_child(i, NumLeaves(tree)))

\* C4: resolution(i) returns what the recursive definition gives, on every
\* blank/filled pattern and every node index.
C4_ResolutionIsRecursiveDef ==
    call.op = "resolution" => ret.value = ResolutionDef(nodes, call.args[1])

C4_Witness ==
    /\ call.op = "resolution"
    /\ ~Node(nodes, call.args[1]).filled
    /\ Len(ret.value) >= 3

\* C5: the resolution is strictly increasing, names only Filled nodes, and
\* every Filled descendant of the node has exactly one ancestor (itself
\* counted) in it.
C5_ResolutionCovers ==
    call.op = "resolution" =>
        LET i   == call.args[1]
            res == ret.value
        IN  /\ \A k \in 1..(Len(res) - 1) : res[k] < res[k + 1]
            /\ \A k \in 1..Len(res) :
                   res[k] \in Indices(nodes) /\ Node(nodes, res[k]).filled
            /\ \A d \in Indices(nodes) :
                   (is_ancestor(i, d, NumLeaves(nodes)) /\ Node(nodes, d).filled)
                   => Cardinality({k \in 1..Len(res) :
                          is_ancestor(res[k], d, NumLeaves(nodes))}) = 1

C5_Witness ==
    /\ call.op = "resolution"
    /\ Len(ret.value) >= 2
    /\ \E d \in Indices(nodes) :
          /\ is_ancestor(call.args[1], d, NumLeaves(nodes))
          /\ Node(nodes, d).filled
          /\ d \notin SeqToSet(ret.value)

FilledLeaves(tree) ==
    {i \in Indices(tree) : i % 2 = 0 /\ Node(tree, i).filled}

Highest(S) == CHOOSE h \in S : \A i \in S : i <= h

\* C6: truncate_to_last_nonblank keeps exactly nodes[0..=h], h the highest
\* Filled leaf, and clears a tree with no Filled leaf.
C6_TruncateKeepsUpToLastFilledLeaf ==
    [][call'.op = "truncate_to_last_nonblank" =>
          nodes' = IF FilledLeaves(nodes) = {} THEN <<>>
                   ELSE SubSeq(nodes, 1, Highest(FilledLeaves(nodes)) + 1)]_vars

\* C7: left-balance preservation: size() is 0 or odd.
C7_SizeZeroOrOdd == size(nodes) = 0 \/ size(nodes) % 2 = 1

C7_Witness ==
    /\ call.op = "truncate_to_last_nonblank"
    /\ size(nodes) = 3

\* C8: add_leaf_node layout.  In a tree built by add_leaf_node alone, each
\* call adds one leaf (the size goes 0, 1, 3, 5, ...: 2k-1 after k calls),
\* puts the new node last (index 2j for the j-th node, j from 0), leaves every
\* node present before where it was, and every odd index holds Blank.
C8_AddLeafLayout ==
    [][call'.op = "add_leaf_node" =>
          /\ size(nodes') = IF size(nodes) = 0 THEN 1 ELSE size(nodes) + 2
          /\ size(nodes') = 2 * (NumLeaves(nodes) + 1) - 1
          /\ Node(nodes', 2 * NumLeaves(nodes)) = call'.args[1]
          /\ \A i \in Indices(nodes) : Node(nodes', i) = Node(nodes, i)
          /\ \A i \in Indices(nodes') : i % 2 = 1 => Node(nodes', i) = Blank]_vars

C8_Witness ==
    /\ call.op = "add_leaf_node"
    /\ size(nodes) = 7
    /\ Node(nodes, 0).filled
    /\ ~Node(nodes, 2).filled
    /\ Node(nodes, 4).filled
    /\ Node(nodes, 6) = call.args[1]
    /\ Node(nodes, 4) /= Node(nodes, 0)

\* C9: get_root_node returns None iff the tree is empty, and on a non-empty
\* tree the node at the root index of the tree.
C9_GetRootNode ==
    call.op = "get_root_node" =>
        /\ (ret.value = None) <=> (size(nodes) = 0)
        /\ size(nodes) /= 0 =>
              ret.value = Some(Node(nodes, root_idx(NumLeaves(nodes))))

\* The nodes propogate_blank(start) is to blank: direct_path(start) and the root.
BlankedBy(tree, start) ==
    SeqToSet(node_direct_path(start, NumLeaves(tree))) \cup {root_idx(NumLeaves(tree))}

\* C10: propogate_blank(start) blanks the nodes of direct_path(start) and the
\* root, and leaves the size and every other node as they were.
C10_PropogateBlankFrame ==
    [][call'.op = "propogate_blank" =>
          /\ size(nodes') = size(nodes)
          /\ \A i \in BlankedBy(nodes, call'.args[1]) : Node(nodes', i) = Blank
          /\ \A i \in Indices(nodes) \ BlankedBy(nodes, call'.args[1]) :
                 Node(nodes', i) = Node(nodes, i)]_vars

C10_Witness ==
    /\ call.op = "propogate_blank"
    /\ call.args[1] = 0
    /\ size(nodes) = 7
    /\ Node(nodes, 0).filled
    /\ Node(nodes, 5).filled
    /\ ~Node(nodes, 1).filled
    /\ ~Node(nodes, 3).filled

\* C11: blanking idempotence.  On every tree the program reaches and every
\* in-tree index i, propogate_blank(i) applied to the result of
\* propogate_blank(i) gives that result again.
C11_BlankIdempotent ==
    \A i \in Indices(nodes) :
        propogate_blank(propogate_blank(nodes, i), i) = propogate_blank(nodes, i)

\* A tree on which propogate_blank(0) blanks two Filled nodes and leaves
\* Filled nodes behind.
C11_Witness ==
    /\ size(nodes) = 7
    /\ Node(nodes, 1).filled
    /\ Node(nodes, 3).filled
    /\ Node(nodes, 0).filled
    /\ Node(nodes, 5).filled
    /\ propogate_blank(nodes, 0) /= nodes

\* C12: leading node message.  Every DirectPathMessage returned by
\* encrypt_direct_path_secrets(my_leaf_idx) starts with a node message that
\* has no ciphertexts and carries the public key of node my_leaf_idx.
C12_LeadingNodeMessage ==
    (call.op = "encrypt_direct_path_secrets" /\ ret.tag = "Ok")
    => /\ Len(ret.node_messages) >= 1
       /\ ret.node_messages[1].node_secrets = <<>>
       /\ Some(ret.node_messages[1].public_key)
              = get_public_key(Node(nodes, call.args[1]))

\* A message of several node messages, with ciphertexts after the first.
C12_Witness ==
    /\ call.op = "encrypt_direct_path_secrets"
    /\ ret.tag = "Ok"
    /\ Len(ret.node_messages) >= 2
    /\ ret.node_messages[2].node_secrets /= <<>>
    /\ ret.node_messages[2].public_key /= ret.node_messages[1].public_key

\* C13: message alignment with the sender's extended direct path.  The
\* message of encrypt_direct_path_secrets(s) has one node message per node of
\* node_extended_direct_path(s); the k-th carries the public key of the k-th
\* node of that path, and its ciphertexts are encryptions of that node's secret.
C13_MessageAlignment ==
    (call.op = "encrypt_direct_path_secrets" /\ ret.tag = "Ok")
    => LET ext == node_extended_direct_path(call.args[1], NumLeaves(nodes))
       IN  /\ Len(ret.node_messages) = Len(ext)
           /\ \A k \in 1..Len(ext) :
                  /\ Some(ret.node_messages[k].public_key)
                         = get_public_key(Node(nodes, ext[k]))
                  /\ \A j \in 1..Len(ret.node_messages[k].node_secrets) :
                         Some(ret.node_messages[k].node_secrets[j].pt)
                            = get_secret(Node(nodes, ext[k]))

\* C14: ciphertext pairing.  The node message after the first that
\* encrypt_direct_path_secrets emits for path node p has as many ciphertexts
\* as resolution(node_sibling(p)) has members; the j-th is the secret of
\* node_parent(p) encrypted to the public key of the j-th member, and the
\* members are in ascending index order.
C14_CiphertextPairing ==
    (call.op = "encrypt_direct_path_secrets" /\ ret.tag = "Ok")
    => LET direct_path == node_direct_path(call.args[1], NumLeaves(nodes))
       IN  /\ Len(ret.node_messages) = 1 + Len(direct_path)
           /\ \A k \in 1..Len(direct_path) :
                  LET res    == resolution(nodes, node_sibling(direct_path[k], NumLeaves(nodes)))
                      parent == Node(nodes, node_parent(direct_path[k], NumLeaves(nodes)))
                      sent   == ret.node_messages[k + 1].node_secrets
                  IN  /\ Len(sent) = Len(res)
                      /\ \A j \in 1..(Len(res) - 1) : res[j] < res[j + 1]
                      /\ \A j \in 1..Len(res) :
                             /\ Some(sent[j].to) = get_public_key(Node(nodes, res[j]))
                             /\ Some(sent[j].pt) = get_secret(parent)

\* A node message with two ciphertexts, to two different keys.
C14_Witness ==
    /\ call.op = "encrypt_direct_path_secrets"
    /\ ret.tag = "Ok"
    /\ Len(ret.node_messages) >= 2
    /\ Len(ret.node_messages[2].node_secrets) >= 2
    /\ ret.node_messages[2].node_secrets[1].to /= ret.node_messages[2].node_secrets[2].to

\* path_secret_n of the walk: path_secret_1 is the argument, and
\* path_secret_{n+1} = Expand(Extract(path_secret_n), "path").
RECURSIVE PathSecretAt(_, _)
PathSecretAt(path_secret, n) ==
    IF n <= 1 THEN path_secret
    ELSE hkdf_expand_label(prk_from_bytes(PathSecretAt(path_secret, n - 1)), "path")

\* C15: after propogate_new_path_secret(cs, path_secret, start) returns Ok,
\* the n-th node of the walk from start up to and including the root is
\* Filled, its secret is Expand(Extract(path_secret_n), "node"), and its
\* public and private key are derive_key_pair of that secret.
C15_PropogatePostcondition ==
    (call.op = "propogate_new_path_secret" /\ ret.tag = "Ok")
    => LET walk == node_extended_direct_path(call.args[2], NumLeaves(nodes))
       IN  /\ walk[Len(walk)] = root_idx(NumLeaves(nodes))
           /\ \A n \in 1..Len(walk) :
                  LET node_secret ==
                          hkdf_expand_label(
                              prk_from_bytes(PathSecretAt(Bytes(call.args[1]), n)),
                              "node")
                  IN  Node(nodes, walk[n]) =
                          Filled(derive_key_pair(node_secret).public_key,
                                 Some(derive_key_pair(node_secret).private_key),
                                 Some(node_secret))

\* A walk of three nodes in a tree where other nodes are Blank.
C15_Witness ==
    /\ call.op = "propogate_new_path_secret"
    /\ ret.tag = "Ok"
    /\ size(nodes) = 7
    /\ call.args[2] = 4
    /\ ~Node(nodes, 1).filled
    /\ ~Node(nodes, 6).filled
    /\ Node(nodes, 5).filled
    /\ Node(nodes, 3).secret /= Node(nodes, 5).secret

\* C16, as claimed: after add_leaf_node, propogate_blank,
\* propogate_new_path_secret or truncate_to_last_nonblank, every Filled node
\* that is not the root has a Filled parent.
C16_FilledAncestorChain ==
    call.op \in {"add_leaf_node", "propogate_blank", "propogate_new_path_secret",
                 "truncate_to_last_nonblank"}
    => \A i \in Indices(nodes) :
          (Node(nodes, i).filled /\ i /= root_idx(NumLeaves(nodes)))
          => Node(nodes, node_parent(i, NumLeaves(nodes))).filled

\* C16, amended: after propogate_new_path_secret(start) returns Ok, start is
\* Filled and every node from start up to the root that is not the root has a
\* Filled parent.  The other three methods give no such guarantee.
C16_FilledChainAfterPropogate ==
    (call.op = "propogate_new_path_secret" /\ ret.tag = "Ok")
    => /\ Node(nodes, call.args[2]).filled
       /\ \A i \in SeqToSet(node_extended_direct_path(call.args[2], NumLeaves(nodes))) :
              (Node(nodes, i).filled /\ i /= root_idx(NumLeaves(nodes)))
              => Node(nodes, node_parent(i, NumLeaves(nodes))).filled

\* A propagation from leaf 0 of a four-leaf tree in which the Filled leaf 4
\* keeps its Blank parent 5.
C16_Witness ==
    /\ call.op = "propogate_new_path_secret"
    /\ ret.tag = "Ok"
    /\ size(nodes) = 7
    /\ call.args[2] = 0
    /\ Node(nodes, 4).filled
    /\ ~Node(nodes, 5).filled

\* The nodes that the step turns from Blank to Filled.
TurnedFilled == {i \in Indices(nodes) : ~Node(nodes, i).filled /\ Node(nodes', i).filled}

\* C17: Blank-to-Filled discipline.  Among the node methods only
\* update_public_key turns a Blank node into a Filled one, and the node it
\* yields has no private key and no secret; update_private_key and
\* update_secret on a Blank node panic and leave it Blank; get_mut_node_secret
\* on a Blank node returns None and leaves it Blank.
C17_BlankToFilledDiscipline ==
    [][/\ TurnedFilled /= {} => call'.op = "update_public_key"
       /\ (call'.op = "update_public_key" /\ ~Node(nodes, call'.args[1]).filled)
          => Node(nodes', call'.args[1]) = Filled(call'.args[2], None, None)
       /\ (call'.op \in {"update_private_key", "update_secret"}
              /\ ~Node(nodes, call'.args[1]).filled)
          => (ret'.tag = "Panic" /\ Node(nodes', call'.args[1]) = Blank)
       /\ (call'.op = "get_mut_node_secret" /\ ~Node(nodes, call'.args[1]).filled)
          => (ret'.value = None /\ Node(nodes', call'.args[1]) = Blank)]_vars

\* update_secret has panicked on a Blank node next to a Filled one.
C17_Witness ==
    /\ call.op = "update_secret"
    /\ ret.tag = "Panic"
    /\ Node(nodes, call.args[1]) = Blank
    /\ \E i \in Indices(nodes) : Node(nodes, i).filled /\ Node(nodes, i).secret /= None

\* C18: update_public_key on a Filled node replaces the public key and
\* clears the node's private key and secret.
C18_UpdatePublicKeyClears ==
    [][(call'.op = "update_public_key" /\ Node(nodes, call'.args[1]).filled)
       => Node(nodes', call'.args[1]) = Filled(call'.args[2], None, None)]_vars

\* The conditions under which decrypt_direct_path_message(message, s, r) is
\* to fail: an index outside the tree; s and r equal or one above the other;
\* or, with ca their common ancestor at position k of the extended direct
\* path of s and res the resolution of the child of ca above r: no k-th node
\* message, no member of res above r with a private key, or no ciphertext
\* at that member's position.
DecryptPrecluded(tree, node_messages, s, r) ==
    IF s >= size(tree) \/ r >= size(tree) THEN TRUE
    ELSE IF is_ancestor(s, r, NumLeaves(tree)) \/ is_ancestor(r, s, NumLeaves(tree))
    THEN TRUE
    ELSE
      LET ca     == common_ancestor(s, r, NumLeaves(tree))
          ext    == node_extended_direct_path(s, NumLeaves(tree))
          k      == CHOOSE k \in 1..Len(ext) : ext[k] = ca
          child  == CHOOSE c \in {node_left_child(ca),
                                  node_right_child(ca, NumLeaves(tree))} :
                        is_ancestor(c, r, NumLeaves(tree))
          res    == resolution(tree, child)
          holders == {j \in 1..Len(res) :
                         /\ Node(tree, res[j]).private_key /= None
                         /\ is_ancestor(res[j], r, NumLeaves(tree))}
      IN  \/ Len(node_messages) < k
          \/ holders = {}
          \/ \E j \in holders : Len(node_messages[k].node_secrets) < j

PathAncestors(tree, i) ==
    SeqToSet(node_extended_direct_path(i, NumLeaves(tree))) \ {i}

\* C20: encrypt_direct_path_secrets returns a TreeError, and no message, when
\* my_leaf_idx is odd, is outside the tree, names a Blank node, or has a path
\* ancestor that is Blank or has no secret.
C20_EncryptErrors ==
    ( /\ call.op = "encrypt_direct_path_secrets"
      /\ \/ call.args[1] % 2 /= 0
         \/ call.args[1] >= size(nodes)
         \/ ~Node(nodes, call.args[1]).filled
         \/ \E a \in PathAncestors(nodes, call.args[1]) :
                ~Node(nodes, a).filled \/ Node(nodes, a).secret = None )
    => ret.tag = "TreeError"

\* HMAC(key, data): the tag of `data` under `key`.
HMAC(key, data) == [tag |-> "hmac", key |-> key, data |-> data]

\* C21: from_group_op(cs, state, op) returns a Handshake with
\* prior_epoch = state.epoch, operation = op, signer_index = state.roster_index,
\* signature = Sign(identity_key, transcript_hash) and
\* confirmation = HMAC(confirmation_key, transcript_hash || signature bytes),
\* and it leaves the GroupState as it was.
C21_FromGroupOp ==
    [][call'.op = "from_group_op" =>
        /\ ret'.prior_epoch = group_state.epoch
        /\ ret'.operation = call'.args[1]
        /\ ret'.signer_index = group_state.roster_index
        /\ ret'.signature = sign(group_state.identity_key, group_state.transcript_hash)
        /\ ret'.confirmation =
              HMAC(group_state.epoch_secrets.confirmation_key,
                   group_state.transcript_hash \o to_bytes(ret'.signature))
        /\ group_state' = group_state]_vars

\* A Handshake was built for an Update that carries a path, in epoch 1.
C21_Witness ==
    /\ call.op = "from_group_op"
    /\ call.args[1].variant = "Update"
    /\ ret.operation.body.path.node_messages /= <<>>
    /\ ret.prior_epoch = 1
    /\ ret.signer_index = MaxLeaves - 1

\* C30: the signature and the confirmation of a Handshake built by
\* from_group_op depend on the GroupState alone: two Handshakes built from the
\* same GroupState, whatever their operations, carry the same signature and
\* the same confirmation.
C30_OperationNotCovered ==
    [][(call.op = "from_group_op" /\ call'.op = "from_group_op"
        /\ group_state' = group_state)
       => /\ ret'.signature = ret.signature
          /\ ret'.confirmation = ret.confirmation]_vars

\* A Remove was built after another operation from the same GroupState; the
\* Handshake carries the operation, its signature covers the transcript hash.
C30_Witness ==
    /\ call.op = "from_group_op"
    /\ ret.operation.variant = "Remove"
    /\ ret.operation.body.removed = 1
    /\ ret.signature.data = group_state.transcript_hash
    /\ ret.confirmation.key = "ck1"

\* The tree with every private key and every secret removed.
Public(tree) ==
    [k \in 1..Len(tree) |->
        IF tree[k].filled THEN Filled(tree[k].public_key[1], None, None) ELSE Blank]

\* Trees that differ from `tree` in private keys and secrets only: the public
\* tree, and the tree as each of its leaves holds it.
SamePublicTrees(tree) ==
    {Public(tree)} \cup {View(tree, holder) : holder \in SeqToSet(tree_leaves(NumLeaves(tree)))}

\* C22: the serialization of a RatchetTree depends only on each node's
\* Blank/Filled tag and public key: a tree that differs from it in private
\* keys and secrets only serializes to the same bytes; and every node of a
\* deserialized tree has no private key and no secret.
C22_SerializationHidesPrivate ==
    /\ (call.op = "serialize" /\ call.args[1] = "RatchetTree")
       => \A other \in SamePublicTrees(nodes) :
             serialize_to_bytes(RatchetTreeT, other) = ret
    /\ (call.op = "deserialize" /\ call.args[1] = "RatchetTree" /\ ret.tag = "Ok")
       => /\ peer = ret.value
          /\ \A i \in Indices(peer) :
                Node(peer, i).private_key = None /\ Node(peer, i).secret = None

\* A tree holding private keys and secrets was serialized and deserialized:
\* the receiver's tree has its tags and public keys.
C22_Witness ==
    /\ call.op = "deserialize"
    /\ call.args[1] = "RatchetTree"
    /\ ret.tag = "Ok"
    /\ size(nodes) = num_nodes_in_tree(MaxLeaves)
    /\ \E i \in Indices(nodes) : Node(nodes, i).filled /\ Node(nodes, i).secret /= None
    /\ \E i \in Indices(nodes) : ~Node(nodes, i).filled
    /\ peer = Public(nodes)

\* The u8 discriminant of a GroupOperation variant.
Discriminant(variant) ==
    CASE variant = "Init" -> 0 [] variant = "Add" -> 1
      [] variant = "Update" -> 2 [] variant = "Remove" -> 3

\* The discriminants on the wire: the operation of a Handshake follows its
\* 4-byte prior_epoch, the first node of a tree follows the 4-byte length.
DiscriminantsOnWire ==
    /\ (call.op = "serialize" /\ call.args[1] = "Handshake")
       => ret[5] = U8(Discriminant(call.args[2].operation.variant))
    /\ (call.op = "serialize" /\ call.args[1] = "RatchetTree")
       => \A i \in Indices(nodes) :
             serialize_to_bytes(NodeT, Node(nodes, i))[1]
                = U8(IF Node(nodes, i).filled THEN 1 ELSE 0)

\* Whatever deserializes serializes back to the same bytes.
BytesRoundTrip ==
    (call.op = "deserialize" /\ ret.tag = "Ok")
    => serialize_to_bytes(Schema(call.args[1]), ret.value) = call.args[2]

\* C23 as stated: for every Handshake, UserInitKey, DirectPathMessage and tree,
\* deserialize(serialize(x)) == x and serialize(deserialize(bytes)) == bytes,
\* with discriminants Init=0, Add=1, Update=2, Remove=3, Blank=0, Filled=1.
C23_RoundTrip ==
    /\ call.op = "serialize"
       => deserialize(Schema(call.args[1]), ret) = [tag |-> "Ok", value |-> call.args[2]]
    /\ BytesRoundTrip
    /\ DiscriminantsOnWire

\* C23 amended: for every Handshake, UserInitKey and DirectPathMessage,
\* deserialize(serialize(x)) == x; for every tree, deserialize(serialize(x)) is
\* x with every private key and every secret removed; and
\* serialize(deserialize(bytes)) == bytes, with the same discriminants.
C23_RoundTripUpToSkipped ==
    /\ call.op = "serialize"
       => deserialize(Schema(call.args[1]), ret)
             = [tag |-> "Ok",
                value |-> IF call.args[1] = "RatchetTree" THEN Public(call.args[2])
                          ELSE call.args[2]]
    /\ BytesRoundTrip
    /\ DiscriminantsOnWire

\* Tampered bytes of a Handshake carrying a Remove still deserialize (a data
\* byte was changed), so the second round trip is exercised on bytes that no
\* serialization in the run produced.
C23_Witness ==
    /\ call.op = "deserialize"
    /\ call.args[1] = "Handshake"
    /\ ret.tag = "Ok"
    /\ ret.value.operation.variant = "Remove"
    /\ ret.value.operation.body.path.node_messages /= <<>>
    /\ ret.value \notin CodecInputs("Handshake")

\* The internal nodes of a tree: the odd indices.
Internal(tree) == {p \in Indices(tree) : p % 2 = 1}

CopathChild(tree, s, r) ==
    LET ca == common_ancestor(s, r, NumLeaves(tree))
    IN  IF is_ancestor(node_left_child(ca), r, NumLeaves(tree))
        THEN node_left_child(ca)
        ELSE node_right_child(ca, NumLeaves(tree))

\* The members of the resolution of the copath child that are ancestors of r.
AncestorsInResolution(tree, s, r) ==
    {m \in SeqToSet(resolution(tree, CopathChild(tree, s, r))) :
        is_ancestor(m, r, NumLeaves(tree))}

\* The receiver's own keys are present: r is Filled, and r and every Filled
\* ancestor of r hold their private key.
OwnKeysPresent(tree, r) ==
    /\ Node(tree, r).filled
    /\ \A a \in SeqToSet(node_extended_direct_path(r, NumLeaves(tree))) :
          Node(tree, a).filled => Node(tree, a).private_key /= None

\* s and r pass the precondition checks of decrypt_direct_path_message.
PassesChecks(tree, s, r) ==
    /\ s < size(tree) /\ r < size(tree)
    /\ ~is_ancestor(s, r, NumLeaves(tree))
    /\ ~is_ancestor(r, s, NumLeaves(tree))

\* C25: for every sender s and receiver r that pass the precondition checks,
\* at most one member of the resolution of the copath child on r's side is an
\* ancestor of r; and when r's own keys are present, exactly one member both
\* holds a private key and is an ancestor of r, so that the call made with
\* these indices does not fail for want of a key.
C25_UniqueDecryptionKey ==
    /\ \A s \in Indices(nodes), r \in Indices(nodes) :
          PassesChecks(nodes, s, r)
          => /\ Cardinality(AncestorsInResolution(nodes, s, r)) <= 1
             /\ OwnKeysPresent(nodes, r)
                => Cardinality({m \in AncestorsInResolution(nodes, s, r) :
                                   Node(nodes, m).private_key /= None}) = 1
    /\ (/\ call.op = "decrypt_direct_path_message"
        /\ PassesChecks(nodes, call.args[1], call.args[2])
        /\ OwnKeysPresent(nodes, call.args[2]))
       => ret /= TreeError("Cannot find node in resolution with known private key")

\* The holder of leaf 6 in a four-leaf tree whose leaf 4 is Blank decrypted
\* the update of leaf 0: the copath child 5 is Blank, its resolution is [6].
C25_Witness ==
    /\ call.op = "decrypt_direct_path_message"
    /\ size(nodes) = 7
    /\ call.args = <<0, 6>>
    /\ OwnKeysPresent(nodes, 6)
    /\ ~Node(nodes, 5).filled
    /\ AncestorsInResolution(nodes, 0, 6) = {6}
    /\ ret.tag = "Ok"

\* The node of the walk at which derive_key_pair fails for this seed.
FailsAt(seed) == seed - (MaxLeaves + 1)

\* The node that propogate_new_path_secret writes at the n-th node of a walk.
WrittenAt(path_secret, n) ==
    LET node_secret == hkdf_expand_label(prk_from_bytes(PathSecretAt(path_secret, n)),
                                         "node")
    IN  Filled(derive_key_pair(node_secret).public_key,
               Some(derive_key_pair(node_secret).private_key),
               Some(node_secret))

\* The walk of the call made in this step: start, its parent, ..., the root.
WalkOfCall == node_extended_direct_path(call'.args[2], NumLeaves(nodes))

\* C27: if key-pair derivation fails at the n-th node of the walk, the call
\* returns that error, the n-1 nodes visited before keep their new public key,
\* private key and secret, and the n-th node and all nodes above it are as
\* they were before the call.
C27_NoRollback ==
    [][(/\ call'.op = "propogate_new_path_secret"
        /\ call'.args[1] \in FailingSeeds
        /\ FailsAt(call'.args[1]) <= Len(WalkOfCall))
       => /\ ret' = DeriveError
          /\ \A k \in 1..Len(WalkOfCall) :
                Node(nodes', WalkOfCall[k]) =
                   IF k < FailsAt(call'.args[1])
                   THEN WrittenAt(Bytes(call'.args[1]), k)
                   ELSE Node(nodes, WalkOfCall[k])]_vars

\* The derivation failed at the root of a four-leaf tree, on the walk from
\* leaf 4: nodes 4 and 5 carry the new secrets, the root 3 another one.
C27_Witness ==
    /\ call.op = "propogate_new_path_secret"
    /\ ret = DeriveError
    /\ size(nodes) = 7
    /\ call.args[2] = 4
    /\ FailsAt(call.args[1]) = 3
    /\ Node(nodes, 4) = WrittenAt(Bytes(call.args[1]), 1)
    /\ Node(nodes, 5) = WrittenAt(Bytes(call.args[1]), 2)
    /\ Node(nodes, 3).filled
    /\ Node(nodes, 3) /= WrittenAt(Bytes(call.args[1]), 3)

\* C29: propogate_new_path_secret(cs, path_secret, start) leaves the size of
\* the tree and every node off the walk from start up to the root as they
\* were, whether it returns Ok or an error.
C29_PropogateFrame ==
    [][call'.op = "propogate_new_path_secret"
       => /\ size(nodes') = size(nodes)
          /\ \A i \in Indices(nodes) \ SeqToSet(WalkOfCall) :
                Node(nodes', i) = Node(nodes, i)]_vars

\* A failed call on a tree of MaxLeaves leaves in which a node off the walk
\* (the sibling of the start leaf) holds a private key and a secret.
C29_Witness ==
    /\ call.op = "propogate_new_path_secret"
    /\ ret.tag = "Err"
    /\ NumLeaves(nodes) = MaxLeaves
    /\ call.args[2] = 0
    /\ Node(nodes, 2).private_key /= None
    /\ Node(nodes, 2).secret /= None
    /\ Node(nodes, 0).secret /= None

\* C28: get_mut_node_secret(secret_len) on a Filled node without a secret
\* stores an all-zero buffer of secret_len bytes in the node and returns it;
\* on a Filled node with a secret it returns that secret and leaves it as it
\* is, whatever secret_len; the public key and the private key of the node
\* are unchanged in both cases.
C28_GetMutNodeSecret ==
    [][(call'.op = "get_mut_node_secret" /\ Node(nodes, call'.args[1]).filled)
       => /\ IF Node(nodes, call'.args[1]).secret = None
             THEN /\ Node(nodes', call'.args[1]).secret = Some(Zeros(call'.args[2]))
                  /\ ret'.value = Some(Zeros(call'.args[2]))
             ELSE /\ Node(nodes', call'.args[1]).secret = Node(nodes, call'.args[1]).secret
                  /\ ret'.value = Node(nodes, call'.args[1]).secret
          /\ Node(nodes', call'.args[1]).filled
          /\ Node(nodes', call'.args[1]).public_key = Node(nodes, call'.args[1]).public_key
          /\ Node(nodes', call'.args[1]).private_key
                = Node(nodes, call'.args[1]).private_key]_vars

\* get_mut_node_secret(64) was called on a node that holds a private key and
\* a zeroed secret of 32 bytes from an earlier call: the 32 bytes came back.
C28_Witness ==
    /\ call.op = "get_mut_node_secret"
    /\ call.args[2] = 64
    /\ Node(nodes, call.args[1]).filled
    /\ Node(nodes, call.args[1]).private_key /= None
    /\ Node(nodes, call.args[1]).secret = Some(Zeros(32))
    /\ ret.value = Some(Zeros(32))

\* C26: a call of propogate_new_path_secret from an in-tree start index in a
\* non-empty tree comes to an end; each pass of its loop is at an in-tree
\* index; a pass that updates the root ends the call, with Ok; and the call
\* returns Ok only from the pass at root_idx(L), so the root is updated once.
C26_PropogateTerminates ==
    /\ [](frame /= None => frame[1].current_node_idx \in Indices(nodes))
    /\ [][(frame /= None /\ frame[1].current_node_idx = root_idx(NumLeaves(nodes))
           /\ nodes' /= nodes)
          => (frame' = None /\ ret'.tag = "Ok")]_vars
    /\ [][(frame /= None /\ frame' = None /\ ret'.tag = "Ok")
          => /\ frame[1].current_node_idx = root_idx(NumLeaves(nodes))
             /\ Node(nodes', root_idx(NumLeaves(nodes)))
                   = WrittenAt(frame[1].path_secret, 1)]_vars
    /\ (frame /= None) ~> (frame = None)

\* A call that started at leaf 4 of a Blank tree of three leaves (where the
\* parent of 4 is the root 3) has returned Ok, leaving leaf 0 Blank.
C26_Witness ==
    /\ call.op = "propogate_new_path_secret"
    /\ frame = None
    /\ ret.tag = "Ok"
    /\ size(nodes) = 5
    /\ call.args[2] = 4
    /\ Node(nodes, 3).secret /= None
    /\ ~Node(nodes, 1).filled
    /\ ~Node(nodes, 0).filled

\* The sender s and the receiver r of a decrypt_direct_path_message call are
\* both in range and neither is an ancestor of the other.
Unrelated(tree, s, r) ==
    /\ s < size(tree)
    /\ r < size(tree)
    /\ ~is_ancestor(s, r, NumLeaves(tree))
    /\ ~is_ancestor(r, s, NumLeaves(tree))

\* C31: whenever decrypt_direct_path_message is called with both indices in
\* range and neither an ancestor of the other, common_ancestor(sender, my)
\* occurs in node_extended_direct_path(sender), the call does not panic with
\* "common ancestor somehow did not appear in direct path", and the common
\* ancestor is an internal node both of whose children are indices of the tree.
C31_CommonAncestorOnPath ==
    (call.op = "decrypt_direct_path_message"
        /\ Unrelated(nodes, call.args[1], call.args[2]))
    => /\ common_ancestor(call.args[1], call.args[2], NumLeaves(nodes))
              \in SeqToSet(node_extended_direct_path(call.args[1], NumLeaves(nodes)))
       /\ ret /= [tag |-> "Panic",
                  msg |-> "common ancestor somehow did not appear in direct path"]
       /\ node_level(common_ancestor(call.args[1], call.args[2], NumLeaves(nodes))) > 0
       /\ node_left_child(common_ancestor(call.args[1], call.args[2],
                                          NumLeaves(nodes))) \in Indices(nodes)
       /\ node_right_child(common_ancestor(call.args[1], call.args[2],
                                           NumLeaves(nodes)),
                           NumLeaves(nodes)) \in Indices(nodes)

\* In a tree of three leaves the receiver at 4 decrypted the update of leaf 2:
\* their common ancestor is the root, the last of the three nodes of the
\* sender's extended direct path, and its right child is the leaf 4, reached
\* by descending from the index 5 outside the tree.
C31_Witness ==
    /\ call.op = "decrypt_direct_path_message"
    /\ NumLeaves(nodes) = 3
    /\ call.args = <<2, 4>>
    /\ Unrelated(nodes, 2, 4)
    /\ node_extended_direct_path(2, 3) = <<2, 1, 3>>
    /\ node_right_child(3, 3) = 4
    /\ ret.tag = "Ok"
    /\ ret.idx = 3

====
